---- MODULE Spec2Model ----
(***************************************************************************)
(* A model of the mcdoc validator (jmoiron/mcheck): version handling and   *)
(* the validator tree of validator.go.                                     *)
(*                                                                         *)
(* Go strings are sequences of one-character strings, so that Split and    *)
(* Atoi can be computed the way the library computes them.  Go ints are    *)
(* two's-complement integers of IntBits bits.                              *)
(***************************************************************************)
EXTENDS Integers, Sequences, FiniteSets, TLC

VARIABLES
    s,          \* parseVersion: the string being parsed
    parsed,     \* parseVersion: <<>> before the call, <<result>> after
    ver,        \* Version.Compare: the receiver
    other,      \* Version.Compare: the argument
    cmp,        \* Version.Compare: <<>> before, <<results>> after
    bv,         \* AppliesForVersion: the BaseValidator (Since, Until)
    target,     \* AppliesForVersion: ctx.Version
    applies,    \* AppliesForVersion: <<>> before, <<result>> after
    available,  \* isFieldAvailableWithConstraints: <<>> before, <<result>> after
    mainValidator,  \* Validate: the validator tree
    jsonData,       \* Validate: the value under validation
    context,        \* Validate: the ValidationContext (Version, Path, Definitions)
    outcome,        \* Validate: "pending", "returned", or "crashed" (stack exhausted)
    validationErr,  \* Validate: the returned error, Nil or <<ValidationError>>
    issues,     \* validateField, validateStruct: <<>> before, <<list of issues>> after
    jsonPath,   \* determineSchemaPath, ValidateJSON: the path of the JSON file, by segment
    schemaPath, \* determineSchemaPath: <<>> before, <<result>> after
    statements, \* ValidateJSON: the statements the parser built from the schema
    lines,      \* parseSpreadStruct: the lines of the schema
    targetVer,  \* MCDocValidator.targetVersion
    mainStruct, \* parseSpreadStruct, validateStruct: mainStruct.Fields, by field name
    stage,      \* the regex validator: "idle", "dispatch read", "spread parsed", "validated"
    buffer,     \* MCDocParser.Buffer: the module under parse, statement by statement
    actions,    \* MCDocParser: the builder actions the parse recorded, in order
    pc,         \* MCDocParser.Execute: the number of recorded actions already run
    sb,         \* StatementBuilder (Statements, Definitions, ExprStack, PathSegmentStack)
    tb,         \* TreeBuilder (Root, Current, Stack) and the nodes it allocated
    opened,     \* TreeBuilder: what Current was before each PushNode not yet popped
    input,      \* a grammar rule: the text it is applied to
    accepted    \* a grammar rule: <<>> before, <<result of the match>> after

versionVars == <<s, parsed, ver, other, cmp, bv, target, applies, available>>
validateVars == <<mainValidator, jsonData, context, outcome, validationErr, issues>>
documentVars == <<jsonPath, schemaPath, statements>>
regexVars == <<lines, targetVer, mainStruct, stage>>
parserVars == <<buffer, actions, pc, sb, tb, opened, input, accepted>>
vars == <<versionVars, validateVars, documentVars, regexVars, parserVars>>

----------------------------------------------------------------------------
(* Bounds *)

IntBits == 6        \* width of the modelled Go int
MaxStrLen == 5      \* longest string handed to parseVersion

----------------------------------------------------------------------------
(* Go int arithmetic *)

MaxInt == 2^(IntBits - 1) - 1
MinInt == -(2^(IntBits - 1))

\* Two's-complement wrap-around of an exact integer result.
Wrap(x) == ((x - MinInt) % (2^IntBits)) + MinInt

----------------------------------------------------------------------------
(* Strings *)

Digits == {"0", "1", "2"}
Chars == Digits \cup {".", "-", "+", "x"}

DigitVal(ch) == CASE ch = "0" -> 0 [] ch = "1" -> 1 [] ch = "2" -> 2

RECURSIVE StringsUpTo(_)
StringsUpTo(n) ==
    IF n = 0 THEN {<<>>}
    ELSE LET shorter == StringsUpTo(n - 1)
         IN shorter \cup {Append(str, ch) : str \in shorter, ch \in Chars}

\* The exact (unbounded) value of a string of digits.
RECURSIVE DecVal(_)
DecVal(str) ==
    IF str = <<>> THEN 0
    ELSE 10 * DecVal(SubSeq(str, 1, Len(str) - 1)) + DigitVal(str[Len(str)])

\* strconv.Atoi: an optional sign, at least one digit, nothing else; a value
\* outside the int range is a range error.
Atoi(str) ==
    LET signed == Len(str) > 0 /\ str[1] \in {"+", "-"}
        body == IF signed THEN Tail(str) ELSE str
    IN IF body = <<>> \/ \E i \in 1..Len(body) : body[i] \notin Digits
       THEN [err |-> TRUE, n |-> 0]
       ELSE LET n == IF signed /\ str[1] = "-" THEN -DecVal(body) ELSE DecVal(body)
            IN IF n < MinInt \/ n > MaxInt
               THEN [err |-> TRUE, n |-> 0]
               ELSE [err |-> FALSE, n |-> n]

\* strings.Split(str, "."): the substrings between the dots, in order.
RECURSIVE Split(_)
Split(str) ==
    IF \E i \in 1..Len(str) : str[i] = "."
    THEN LET i == CHOOSE j \in 1..Len(str) :
                      str[j] = "." /\ \A k \in 1..(j - 1) : str[k] # "."
         IN <<SubSeq(str, 1, i - 1)>> \o Split(SubSeq(str, i + 1, Len(str)))
    ELSE <<str>>

----------------------------------------------------------------------------
(* Version *)

Version(major, minor, patch) == [Major |-> major, Minor |-> minor, Patch |-> patch]

ZeroVersion == Version(0, 0, 0)

\* Compare without its last step: versions that differ only in the patch
\* compare equal.
CompareNoPatch(a, b) ==
    IF a.Major # b.Major THEN Wrap(a.Major - b.Major)
    ELSE Wrap(a.Minor - b.Minor)

Compare(a, b) ==
    IF a.Major # b.Major THEN Wrap(a.Major - b.Major)
    ELSE IF a.Minor # b.Minor THEN Wrap(a.Minor - b.Minor)
    ELSE Wrap(a.Patch - b.Patch)

parseVersion(str) ==
    LET parts == Split(str)
        fail == [err |-> TRUE, ver |-> ZeroVersion]
    IN IF Len(parts) < 2 \/ Len(parts) > 3 THEN fail
       ELSE LET major == Atoi(parts[1])
                minor == Atoi(parts[2])
                patch == IF Len(parts) = 3 THEN Atoi(parts[3])
                         ELSE [err |-> FALSE, n |-> 0]
            IN IF major.err THEN fail
               ELSE IF minor.err THEN fail
               ELSE IF patch.err THEN fail
               ELSE [err |-> FALSE, ver |-> Version(major.n, minor.n, patch.n)]

\* AppliesForVersion with the since endpoint excluded.
AppliesForVersionSinceExclusive(base, ctxVersion) ==
    LET since == parseVersion(base.Since)
        until == parseVersion(base.Until)
    IN IF base.Since # <<>> /\ ~since.err /\ Compare(ctxVersion, since.ver) <= 0 THEN FALSE
       ELSE IF base.Until # <<>> /\ ~until.err /\ Compare(ctxVersion, until.ver) > 0 THEN FALSE
       ELSE TRUE

\* AppliesForVersion with an endpoint that does not parse gating the node out.
AppliesForVersionUnparsedGatesOut(base, ctxVersion) ==
    LET since == parseVersion(base.Since)
        until == parseVersion(base.Until)
    IN IF base.Since # <<>> /\ (since.err \/ Compare(ctxVersion, since.ver) < 0) THEN FALSE
       ELSE IF base.Until # <<>> /\ (until.err \/ Compare(ctxVersion, until.ver) > 0) THEN FALSE
       ELSE TRUE

\* BaseValidator.AppliesForVersion, with ctx.Version passed as ctxVersion.
AppliesForVersion(base, ctxVersion) ==
    LET since == parseVersion(base.Since)
        until == parseVersion(base.Until)
    IN IF base.Since # <<>> /\ ~since.err /\ Compare(ctxVersion, since.ver) < 0 THEN FALSE
       ELSE IF base.Until # <<>> /\ ~until.err /\ Compare(ctxVersion, until.ver) > 0 THEN FALSE
       ELSE TRUE

\* MCDocValidator.isFieldAvailableWithConstraints: the gate is a pair of
\* optional versions (<<>> for nil, <<ver>> for a pointer to ver).
isFieldAvailableWithConstraints(sinceVersion, untilVersion, targetVersion) ==
    IF sinceVersion # <<>> /\ Compare(targetVersion, sinceVersion[1]) < 0 THEN FALSE
    ELSE IF untilVersion # <<>> /\ Compare(targetVersion, untilVersion[1]) > 0 THEN FALSE
    ELSE TRUE

\* parseVersionRequirement for one attribute value: a pointer to the parsed
\* version, nil when the attribute is absent or its value does not parse.
extractVersion(str) ==
    IF str = <<>> THEN <<>>
    ELSE IF parseVersion(str).err THEN <<>>
    ELSE <<parseVersion(str).ver>>

----------------------------------------------------------------------------
(* Go values as Validate receives them (interface{}) *)

\* A value is a record tagged with its dynamic type t, written as fmt's %T
\* writes it.  A float64 is held exactly, as a whole number of halves; the
\* model draws floats well inside the int64 range, where the conversions
\* between float64 and int64 are exact.
GoNil == [t |-> "<nil>"]
GoBool(b) == [t |-> "bool", boolVal |-> b]
GoFloat64(h) == [t |-> "float64", halves |-> h]
GoInt(n) == [t |-> "int", int |-> n]
GoInt64(n) == [t |-> "int64", int |-> n]
GoString(str) == [t |-> "string", str |-> str]
GoArray(elems) == [t |-> "[]interface {}", elems |-> elems]
GoObject(obj) == [t |-> "map[string]interface {}", obj |-> obj]

\* int64(v) for a float64 v: truncation toward zero.
Float64ToInt64(h) == IF h >= 0 THEN h \div 2 ELSE -((-h) \div 2)

\* float64(n) for an int or int64 n, in halves.
IntToFloat64(n) == 2 * n

----------------------------------------------------------------------------
(* ValidationError and the result of a Validate call *)

Nil == <<>>

\* ValidationError{Path, Message}; a message is a sequence of words.
ValidationError(path, message) == [Path |-> path, Message |-> message]

\* ValidationError.Error()
ErrorString(e) ==
    IF Len(e.Path) = 0 THEN e.Message
    ELSE <<"at">> \o e.Path \o <<":">> \o e.Message

\* What a call leaves behind: the returned error (Nil or <<error>>), ctx.Path
\* as the call left it, and whether the call ran out of stack.
Returned(err, path) == [err |-> err, Path |-> path, fatal |-> FALSE]
Ok(ctx) == Returned(Nil, ctx.Path)
Fail(ctx, message) == Returned(<<ValidationError(ctx.Path, message)>>, ctx.Path)
StackOverflow(ctx) ==
    [err |-> <<ValidationError(ctx.Path, <<"stack overflow">>)>>,
     Path |-> ctx.Path, fatal |-> TRUE]

\* fmt.Sprintf("[%d]", i)
IndexString(i) == "[" \o ToString(i) \o "]"

\* path[:len(path)-1]
Pop(path) == SubSeq(path, 1, Len(path) - 1)

\* ctx after ctx.Path = append(ctx.Path, name)
Push(ctx, name) == [ctx EXCEPT !.Path = Append(@, name)]

WithPath(ctx, path) == [ctx EXCEPT !.Path = path]

\* strings.Join(errors, "; ")
RECURSIVE JoinErrors(_)
JoinErrors(errors) ==
    IF Len(errors) = 0 THEN <<>>
    ELSE IF Len(errors) = 1 THEN errors[1]
    ELSE errors[1] \o <<";">> \o JoinErrors(Tail(errors))

----------------------------------------------------------------------------
(* Validator values *)

\* BaseValidator{Since, Until}
Gate(since, until) == [Since |-> since, Until |-> until]
NoGate == Gate(<<>>, <<>>)

Primitive(gate, type) ==
    [kind |-> "Primitive", Since |-> gate.Since, Until |-> gate.Until, Type |-> type]

\* Min and Max are pointers: Nil, or <<the bound in halves>>.
Range(gate, min, minExclusive, max, maxExclusive) ==
    [kind |-> "Range", Since |-> gate.Since, Until |-> gate.Until,
     Min |-> min, Max |-> max, MinExclusive |-> minExclusive, MaxExclusive |-> maxExclusive]

\* LengthConstraint is a pointer: Nil, or <<a Range>>.
ArrayOf(gate, element, lengthConstraint) ==
    [kind |-> "Array", Since |-> gate.Since, Until |-> gate.Until,
     ElementValidator |-> element, LengthConstraint |-> lengthConstraint]

StructField(gate, name, fieldValidator, optional) ==
    [Name |-> name, Validator |-> fieldValidator, Optional |-> optional,
     Since |-> gate.Since, Until |-> gate.Until]

Struct(gate, fields, spreadFields) ==
    [kind |-> "Struct", Since |-> gate.Since, Until |-> gate.Until,
     Fields |-> fields, SpreadFields |-> spreadFields]

Union(gate, alternatives) ==
    [kind |-> "Union", Since |-> gate.Since, Until |-> gate.Until,
     Alternatives |-> alternatives]

Literal(gate, literalValue) ==
    [kind |-> "Literal", Since |-> gate.Since, Until |-> gate.Until, Value |-> literalValue]

Reference(gate, typeName) ==
    [kind |-> "Reference", Since |-> gate.Since, Until |-> gate.Until, TypeName |-> typeName]

Attributed(gate, inner) ==
    [kind |-> "Attributed", Since |-> gate.Since, Until |-> gate.Until,
     InnerValidator |-> inner]

Constrained(gate, inner, constraint) ==
    [kind |-> "Constrained", Since |-> gate.Since, Until |-> gate.Until,
     InnerValidator |-> inner, Constraint |-> constraint]

\* BasicStructValidator{BaseValidator}
BasicStruct(gate) == [kind |-> "BasicStruct", Since |-> gate.Since, Until |-> gate.Until]

\* An empty ctx.Definitions map.
NoDefinitions == [name \in {} |-> NoGate]

----------------------------------------------------------------------------
(* The validators of validator.go *)

RECURSIVE Validate(_, _, _, _, _)
RECURSIVE ArrayLoop(_, _, _, _, _, _)
RECURSIVE FieldLoop(_, _, _, _, _, _, _)
RECURSIVE SpreadLoop(_, _, _, _, _, _, _)
RECURSIVE TrySpreads(_, _, _, _, _, _, _)
RECURSIVE AlternativeLoop(_, _, _, _, _, _, _)

\* PrimitiveValidate without the fractional-part test of the int case.
PrimitiveValidateAnyFloatIsInt(pv, value, ctx) ==
    IF ~AppliesForVersion(pv, ctx.Version) THEN Ok(ctx)
    ELSE CASE pv.Type = "string" ->
                IF value.t = "string" THEN Ok(ctx)
                ELSE Fail(ctx, <<"expected string, got", value.t>>)
           [] pv.Type = "int" ->
                IF value.t \in {"float64", "int", "int64"} THEN Ok(ctx)
                ELSE Fail(ctx, <<"expected int, got", value.t>>)
           [] pv.Type \in {"float", "double"} ->
                IF value.t = "float64" THEN Ok(ctx)
                ELSE Fail(ctx, <<"expected float, got", value.t>>)
           [] pv.Type = "boolean" ->
                IF value.t = "bool" THEN Ok(ctx)
                ELSE Fail(ctx, <<"expected boolean, got", value.t>>)
           [] pv.Type = "any" -> Ok(ctx)
           [] OTHER -> Fail(ctx, <<"unknown primitive type:", pv.Type>>)

PrimitiveValidate(pv, value, ctx) ==
    IF ~AppliesForVersion(pv, ctx.Version) THEN Ok(ctx)
    ELSE CASE pv.Type = "string" ->
                IF value.t = "string" THEN Ok(ctx)
                ELSE Fail(ctx, <<"expected string, got", value.t>>)
           [] pv.Type = "int" ->
                IF value.t = "float64"
                THEN IF value.halves # IntToFloat64(Float64ToInt64(value.halves))
                     THEN Fail(ctx, <<"expected integer, got float">>)
                     ELSE Ok(ctx)
                ELSE IF value.t \in {"int", "int64"} THEN Ok(ctx)
                ELSE Fail(ctx, <<"expected int, got", value.t>>)
           [] pv.Type \in {"float", "double"} ->
                IF value.t = "float64" THEN Ok(ctx)
                ELSE Fail(ctx, <<"expected float, got", value.t>>)
           [] pv.Type = "boolean" ->
                IF value.t = "bool" THEN Ok(ctx)
                ELSE Fail(ctx, <<"expected boolean, got", value.t>>)
           [] pv.Type = "any" -> Ok(ctx)
           [] OTHER -> Fail(ctx, <<"unknown primitive type:", pv.Type>>)

\* RangeValidate with MinExclusive read as inclusive.
RangeValidateMinInclusive(rv, value, ctx) ==
    IF ~AppliesForVersion(rv, ctx.Version) THEN Ok(ctx)
    ELSE IF value.t \notin {"float64", "int", "int64"}
    THEN Fail(ctx, <<"expected number for range validation, got", value.t>>)
    ELSE LET numValue == IF value.t = "float64" THEN value.halves
                         ELSE IntToFloat64(value.int)
         IN IF rv.Min # Nil /\ numValue < rv.Min[1]
            THEN Fail(ctx, <<"value", ToString(numValue),
                             "must be greater than or equal to", ToString(rv.Min[1])>>)
            ELSE IF rv.Max # Nil /\ rv.MaxExclusive /\ numValue >= rv.Max[1]
            THEN Fail(ctx, <<"value", ToString(numValue), "must be less than",
                             ToString(rv.Max[1])>>)
            ELSE IF rv.Max # Nil /\ ~rv.MaxExclusive /\ numValue > rv.Max[1]
            THEN Fail(ctx, <<"value", ToString(numValue),
                             "must be less than or equal to", ToString(rv.Max[1])>>)
            ELSE Ok(ctx)

RangeValidate(rv, value, ctx) ==
    IF ~AppliesForVersion(rv, ctx.Version) THEN Ok(ctx)
    ELSE IF value.t \notin {"float64", "int", "int64"}
    THEN Fail(ctx, <<"expected number for range validation, got", value.t>>)
    ELSE LET numValue == IF value.t = "float64" THEN value.halves
                         ELSE IntToFloat64(value.int)
         IN IF rv.Min # Nil /\ rv.MinExclusive /\ numValue <= rv.Min[1]
            THEN Fail(ctx, <<"value", ToString(numValue), "must be greater than",
                             ToString(rv.Min[1])>>)
            ELSE IF rv.Min # Nil /\ ~rv.MinExclusive /\ numValue < rv.Min[1]
            THEN Fail(ctx, <<"value", ToString(numValue),
                             "must be greater than or equal to", ToString(rv.Min[1])>>)
            ELSE IF rv.Max # Nil /\ rv.MaxExclusive /\ numValue >= rv.Max[1]
            THEN Fail(ctx, <<"value", ToString(numValue), "must be less than",
                             ToString(rv.Max[1])>>)
            ELSE IF rv.Max # Nil /\ ~rv.MaxExclusive /\ numValue > rv.Max[1]
            THEN Fail(ctx, <<"value", ToString(numValue),
                             "must be less than or equal to", ToString(rv.Max[1])>>)
            ELSE Ok(ctx)

\* The element loop of ArrayValidator.Validate, from element i (1-based).
ArrayLoop(av, elems, i, ctx, order, hops) ==
    IF i > Len(elems) THEN Ok(ctx)
    ELSE LET r == Validate(av.ElementValidator, elems[i],
                           Push(ctx, IndexString(i - 1)), order, hops)
         IN IF r.err # Nil THEN r
            ELSE ArrayLoop(av, elems, i + 1, WithPath(ctx, Pop(r.Path)), order, hops)

ArrayValidate(av, value, ctx, order, hops) ==
    IF ~AppliesForVersion(av, ctx.Version) THEN Ok(ctx)
    ELSE IF value.t # "[]interface {}"
    THEN Fail(ctx, <<"expected array, got", value.t>>)
    ELSE LET length == IF av.LengthConstraint = Nil THEN Ok(ctx)
                       ELSE RangeValidate(av.LengthConstraint[1],
                                          GoFloat64(IntToFloat64(Len(value.elems))), ctx)
         IN IF length.err # Nil
            THEN Fail(ctx, <<"array length validation failed:">>
                               \o ErrorString(length.err[1]))
            ELSE ArrayLoop(av, value.elems, 1, ctx, order, hops)

\* The loop over sv.Fields, from field i, with the seenFields so far.  The
\* result carries seenFields for the loop that follows.
\* FieldLoop that takes field i without asking whether its gate applies.
FieldLoopIgnoringFieldGate(sv, obj, i, seenFields, ctx, order, hops) ==
    IF i > Len(sv.Fields) THEN Ok(ctx) @@ [seen |-> seenFields]
    ELSE LET field == sv.Fields[i]
         IN IF field.Name \notin DOMAIN obj
            THEN IF ~field.Optional
                 THEN Fail(ctx, <<"required field", field.Name, "is missing">>)
                          @@ [seen |-> seenFields]
                 ELSE FieldLoop(sv, obj, i + 1, seenFields, ctx, order, hops)
            ELSE LET r == Validate(field.Validator, obj[field.Name],
                                   Push(ctx, field.Name), order, hops)
                 IN IF r.err # Nil THEN r @@ [seen |-> seenFields]
                    ELSE FieldLoop(sv, obj, i + 1, seenFields \cup {field.Name},
                                   WithPath(ctx, Pop(r.Path)), order, hops)

FieldLoop(sv, obj, i, seenFields, ctx, order, hops) ==
    IF i > Len(sv.Fields) THEN Ok(ctx) @@ [seen |-> seenFields]
    ELSE LET field == sv.Fields[i]
         IN IF ~AppliesForVersion(field, ctx.Version)
            THEN FieldLoop(sv, obj, i + 1, seenFields, ctx, order, hops)
            ELSE IF field.Name \notin DOMAIN obj
            THEN IF ~field.Optional
                 THEN Fail(ctx, <<"required field", field.Name, "is missing">>)
                          @@ [seen |-> seenFields]
                 ELSE FieldLoop(sv, obj, i + 1, seenFields, ctx, order, hops)
            ELSE LET r == Validate(field.Validator, obj[field.Name],
                                   Push(ctx, field.Name), order, hops)
                 IN IF r.err # Nil THEN r @@ [seen |-> seenFields]
                    ELSE FieldLoop(sv, obj, i + 1, seenFields \cup {field.Name},
                                   WithPath(ctx, Pop(r.Path)), order, hops)

\* The loop over sv.SpreadFields for one key, from spread validator j.
TrySpreads(sv, j, fieldName, fieldValue, ctx, order, hops) ==
    IF j > Len(sv.SpreadFields)
    THEN [validated |-> FALSE, Path |-> ctx.Path, fatal |-> FALSE, crash |-> Nil]
    ELSE LET r == Validate(sv.SpreadFields[j], fieldValue, Push(ctx, fieldName),
                           order, hops)
         IN IF r.fatal
            THEN [validated |-> FALSE, Path |-> r.Path, fatal |-> TRUE, crash |-> r.err]
            ELSE IF r.err = Nil
            THEN [validated |-> TRUE, Path |-> Pop(r.Path), fatal |-> FALSE, crash |-> Nil]
            ELSE TrySpreads(sv, j + 1, fieldName, fieldValue,
                            WithPath(ctx, Pop(r.Path)), order, hops)

\* The range over obj: keys holds the keys still to visit, in the order the
\* map iteration yields them.
SpreadLoop(sv, obj, keys, seenFields, ctx, order, hops) ==
    IF Len(keys) = 0 THEN Ok(ctx)
    ELSE LET fieldName == keys[1]
         IN IF fieldName \in seenFields
            THEN SpreadLoop(sv, obj, Tail(keys), seenFields, ctx, order, hops)
            ELSE LET tried == TrySpreads(sv, 1, fieldName, obj[fieldName], ctx,
                                         order, hops)
                 IN IF tried.fatal
                    THEN [err |-> tried.crash, Path |-> tried.Path, fatal |-> TRUE]
                    ELSE IF ~tried.validated /\ Len(sv.SpreadFields) = 0
                    THEN Fail(WithPath(ctx, tried.Path),
                              <<"unexpected field", fieldName>>)
                    ELSE SpreadLoop(sv, obj, Tail(keys), seenFields,
                                    WithPath(ctx, tried.Path), order, hops)

\* The keys of obj in the order the iteration order puts them.
RECURSIVE KeysInOrder(_, _)
KeysInOrder(obj, order) ==
    IF Len(order) = 0 THEN <<>>
    ELSE IF order[1] \in DOMAIN obj
    THEN <<order[1]>> \o KeysInOrder(obj, Tail(order))
    ELSE KeysInOrder(obj, Tail(order))

StructValidate(sv, value, ctx, order, hops) ==
    IF ~AppliesForVersion(sv, ctx.Version) THEN Ok(ctx)
    ELSE IF value.t # "map[string]interface {}"
    THEN Fail(ctx, <<"expected object, got", value.t>>)
    ELSE LET fields == FieldLoop(sv, value.obj, 1, {}, ctx, order, hops)
         IN IF fields.err # Nil
            THEN [err |-> fields.err, Path |-> fields.Path, fatal |-> fields.fatal]
            ELSE SpreadLoop(sv, value.obj, KeysInOrder(value.obj, order),
                            fields.seen, WithPath(ctx, fields.Path), order, hops)

\* AlternativeLoop that gives up after the first alternative it tries.
AlternativeLoopFirstOnly(uv, i, errors, value, ctx, order, hops) ==
    IF i > Len(uv.Alternatives)
    THEN Fail(ctx, <<"value does not match any union alternative:">>
                       \o JoinErrors(errors))
    ELSE LET r == Validate(uv.Alternatives[i], value, ctx, order, hops)
         IN IF r.fatal THEN r
            ELSE IF r.err = Nil THEN r
            ELSE Fail(WithPath(ctx, r.Path),
                      <<"value does not match any union alternative:">>
                          \o JoinErrors(Append(errors, ErrorString(r.err[1]))))

\* The loop over uv.Alternatives, from alternative i, with the error strings
\* collected so far.
AlternativeLoop(uv, i, errors, value, ctx, order, hops) ==
    IF i > Len(uv.Alternatives)
    THEN Fail(ctx, <<"value does not match any union alternative:">>
                       \o JoinErrors(errors))
    ELSE LET r == Validate(uv.Alternatives[i], value, ctx, order, hops)
         IN IF r.fatal THEN r
            ELSE IF r.err = Nil THEN r
            ELSE AlternativeLoop(uv, i + 1, Append(errors, ErrorString(r.err[1])),
                                 value, WithPath(ctx, r.Path), order, hops)

UnionValidate(uv, value, ctx, order, hops) ==
    IF ~AppliesForVersion(uv, ctx.Version) THEN Ok(ctx)
    ELSE AlternativeLoop(uv, 1, <<>>, value, ctx, order, hops)

\* reflect.DeepEqual on two interface{} values: same dynamic type, same content.
LiteralValidate(lv, value, ctx) ==
    IF ~AppliesForVersion(lv, ctx.Version) THEN Ok(ctx)
    ELSE IF value # lv.Value
    THEN Fail(ctx, <<"expected literal value, got", value.t>>)
    ELSE Ok(ctx)

\* hops is the stack left: the number of references the call may still follow.
ReferenceValidate(rv, value, ctx, order, hops) ==
    IF ~AppliesForVersion(rv, ctx.Version) THEN Ok(ctx)
    ELSE IF rv.TypeName \notin DOMAIN ctx.Definitions
    THEN Fail(ctx, <<"undefined type reference:", rv.TypeName>>)
    ELSE IF hops = 0 THEN StackOverflow(ctx)
    ELSE Validate(ctx.Definitions[rv.TypeName], value, ctx, order, hops - 1)

AttributedValidate(av, value, ctx, order, hops) ==
    IF ~AppliesForVersion(av, ctx.Version) THEN Ok(ctx)
    ELSE Validate(av.InnerValidator, value, ctx, order, hops)

ConstrainedValidate(cv, value, ctx, order, hops) ==
    IF ~AppliesForVersion(cv, ctx.Version) THEN Ok(ctx)
    ELSE LET inner == Validate(cv.InnerValidator, value, ctx, order, hops)
         IN IF inner.err # Nil THEN inner
            ELSE Validate(cv.Constraint, value, WithPath(ctx, inner.Path), order, hops)

BasicStructValidate(bsv, value, ctx) ==
    IF ~AppliesForVersion(bsv, ctx.Version) THEN Ok(ctx)
    ELSE IF value.t # "map[string]interface {}"
    THEN Fail(ctx, <<"expected object structure">>)
    ELSE Ok(ctx)

\* Validator.Validate, dispatched on the validator's concrete type.
Validate(validator, value, ctx, order, hops) ==
    CASE validator.kind = "Primitive" -> PrimitiveValidate(validator, value, ctx)
      [] validator.kind = "Range" -> RangeValidate(validator, value, ctx)
      [] validator.kind = "Array" -> ArrayValidate(validator, value, ctx, order, hops)
      [] validator.kind = "Struct" -> StructValidate(validator, value, ctx, order, hops)
      [] validator.kind = "Union" -> UnionValidate(validator, value, ctx, order, hops)
      [] validator.kind = "Literal" -> LiteralValidate(validator, value, ctx)
      [] validator.kind = "Reference" -> ReferenceValidate(validator, value, ctx, order, hops)
      [] validator.kind = "Attributed" -> AttributedValidate(validator, value, ctx, order, hops)
      [] validator.kind = "Constrained" -> ConstrainedValidate(validator, value, ctx, order, hops)
      [] validator.kind = "BasicStruct" -> BasicStructValidate(validator, value, ctx)

----------------------------------------------------------------------------
(* parseVersion applied to one string *)

ParseIdle == s = <<>> /\ parsed = <<>>
CompareIdle == ver = ZeroVersion /\ other = ZeroVersion /\ cmp = <<>>
GateIdle ==
    /\ bv = [Since |-> <<>>, Until |-> <<>>]
    /\ target = ZeroVersion
    /\ applies = <<>>
    /\ available = <<>>

ValidateIdle ==
    /\ mainValidator = Primitive(NoGate, "any")
    /\ jsonData = GoNil
    /\ context = [Version |-> ZeroVersion, Path |-> <<>>, Definitions |-> NoDefinitions]
    /\ outcome = "pending"
    /\ validationErr = Nil
    /\ issues = <<>>

DocumentIdle == jsonPath = <<>> /\ schemaPath = <<>> /\ statements = <<>>

RegexIdle ==
    /\ lines = <<>>
    /\ targetVer = ZeroVersion
    /\ mainStruct = <<>>
    /\ stage = "idle"

\* The builder as StatementBuilder.Init leaves it, with nothing to parse.
NewStatementBuilder ==
    [Statements |-> <<>>, Definitions |-> <<>>, ExprStack |-> <<>>, PathSegmentStack |-> <<>>]

\* TreeBuilder.Init: no root, no current node, an empty stack; 0 is the nil
\* pointer and node n is nodes[n].
NewTreeBuilder == [Root |-> 0, Current |-> 0, Stack |-> <<>>, nodes |-> <<>>]

ParserIdle ==
    /\ buffer = <<>>
    /\ actions = <<>>
    /\ pc = 0
    /\ sb = NewStatementBuilder
    /\ tb = NewTreeBuilder
    /\ opened = <<>>
    /\ input = ""
    /\ accepted = <<>>

InitParse ==
    /\ s \in StringsUpTo(MaxStrLen)
    /\ parsed = <<>>
    /\ CompareIdle
    /\ GateIdle
    /\ ValidateIdle
    /\ DocumentIdle
    /\ RegexIdle
    /\ ParserIdle

CallParseVersion ==
    /\ parsed = <<>>
    /\ parsed' = <<parseVersion(s)>>
    /\ UNCHANGED <<s, ver, other, cmp, bv, target, applies, available, validateVars, documentVars, regexVars, parserVars>>

NextParse == CallParseVersion

SpecParse == InitParse /\ [][NextParse]_vars

----------------------------------------------------------------------------
(* Version.Compare applied to two versions *)

\* Components a Version can hold: small ones and the ends of the int range.
Components == {MinInt, 0, 1, 20, MaxInt}

Versions == [Major : Components, Minor : Components, Patch : Components]

InitCompare ==
    /\ ver \in Versions
    /\ other \in Versions
    /\ cmp = <<>>
    /\ ParseIdle
    /\ GateIdle
    /\ ValidateIdle
    /\ DocumentIdle
    /\ RegexIdle
    /\ ParserIdle

CallCompare ==
    /\ cmp = <<>>
    /\ cmp' = <<[fwd |-> Compare(ver, other), back |-> Compare(other, ver)]>>
    /\ UNCHANGED <<s, parsed, ver, other, bv, target, applies, available, validateVars, documentVars, regexVars, parserVars>>

NextCompare == CallCompare

SpecCompare == InitCompare /\ [][NextCompare]_vars

----------------------------------------------------------------------------
(* BaseValidator.AppliesForVersion applied to one gate and one target *)

\* Since/Until strings a schema can carry: unset, well-formed versions,
\* and strings parseVersion rejects or reads as a negative version.
GateStrings ==
    { <<>>,
      <<"1", ".", "0">>, <<"1", ".", "1">>, <<"1", ".", "1", ".", "1">>,
      <<"0", ".", "2">>, <<"2", ".", "0", ".", "1">>, <<"1", ".", "2", ".", "0">>,
      <<"x">>, <<"1">>, <<"1", ".", "x">>, <<"-", "1", ".", "0">> }

GateTargets == [Major : {-1, 0, 1, 2, MaxInt}, Minor : {0, 1, 2, MaxInt}, Patch : {0, 1, MaxInt}]

InitGate ==
    /\ bv \in [Since : GateStrings, Until : GateStrings]
    /\ target \in GateTargets
    /\ applies = <<>>
    /\ available = <<>>
    /\ ParseIdle
    /\ CompareIdle
    /\ ValidateIdle
    /\ DocumentIdle
    /\ RegexIdle
    /\ ParserIdle

CallAppliesForVersion ==
    /\ applies = <<>>
    /\ applies' = <<AppliesForVersion(bv, target)>>
    /\ UNCHANGED <<s, parsed, ver, other, cmp, bv, target, available, validateVars, documentVars, regexVars, parserVars>>

\* The regex validator reads the same attribute strings through
\* parseVersionRequirement and tests the resulting pointers.
CallIsFieldAvailable ==
    /\ available = <<>>
    /\ available' = <<isFieldAvailableWithConstraints(
                          extractVersion(bv.Since), extractVersion(bv.Until), target)>>
    /\ UNCHANGED <<s, parsed, ver, other, cmp, bv, target, applies, validateVars, documentVars, regexVars, parserVars>>

NextGate == CallAppliesForVersion \/ CallIsFieldAvailable

SpecGate == InitGate /\ [][NextGate]_vars

----------------------------------------------------------------------------
(* The scalar cases of MCDocValidator.validateField (the regex validator) *)

\* The issues validateField appends for a value and a field of a scalar type.
validateField(jsonValue, fieldType) ==
    CASE fieldType = "MCDocTypeUnknown" -> <<>>
      [] fieldType = "MCDocTypeString" ->
            IF jsonValue.t = "string" THEN <<>>
            ELSE <<<<"should be a string, got", jsonValue.t>>>>
      [] fieldType = "MCDocTypeInt" ->
            IF jsonValue.t = "float64"
            THEN IF jsonValue.halves # IntToFloat64(Float64ToInt64(jsonValue.halves))
                 THEN <<<<"should be an integer, got float">>>>
                 ELSE <<>>
            ELSE IF jsonValue.t = "int" THEN <<>>
            ELSE <<<<"should be an integer, got", jsonValue.t>>>>
      [] fieldType \in {"MCDocTypeFloat", "MCDocTypeDouble"} ->
            IF jsonValue.t = "float64" THEN <<>>
            ELSE IF jsonValue.t = "int" THEN <<>>
            ELSE <<<<"should be a number, got", jsonValue.t>>>>
      [] fieldType = "MCDocTypeBoolean" ->
            IF jsonValue.t = "bool" THEN <<>>
            ELSE <<<<"should be a boolean, got", jsonValue.t>>>>

\* MCDocValidator.parseType on a type name free of brackets, braces and
\* parentheses: the five scalar names, and the default case for the rest.
parseType(typeStr) ==
    CASE typeStr = "string" -> "MCDocTypeString"
      [] typeStr = "int" -> "MCDocTypeInt"
      [] typeStr = "float" -> "MCDocTypeFloat"
      [] typeStr = "double" -> "MCDocTypeDouble"
      [] typeStr = "boolean" -> "MCDocTypeBoolean"
      [] OTHER -> "MCDocTypeStruct"

----------------------------------------------------------------------------
(* Validate applied to one validator tree and one value *)

MaxFields == 2          \* most fields in a generated struct
MaxAlternatives == 2    \* most alternatives in a generated union
MaxHalves == 6          \* largest float drawn, in halves (3.0)
MaxHops == 2            \* references a call can follow before the stack is exhausted

\* All sequences over S of length at most n.
SeqsUpTo(S, n) == UNION {[1..k -> S] : k \in 0..n}

\* Gates around the two target versions: since 1.1 is closed at 1.0, until
\* 1.0 is closed at 1.1.
Since11 == Gate(<<"1", ".", "1">>, <<>>)
Until10 == Gate(<<>>, <<"1", ".", "0">>)
ValidateGates == {NoGate, Since11, Until10}
ValidateVersions == {Version(1, 0, 0), Version(1, 1, 0)}

PrimitiveTypes == {"string", "int", "float", "double", "boolean", "any", "integer"}

PString == Primitive(NoGate, "string")
PInt == Primitive(NoGate, "int")
PFloat == Primitive(NoGate, "float")

PrimitiveValidators == {Primitive(g, ty) : g \in ValidateGates, ty \in PrimitiveTypes}

\* Ranges over the bounds 1.0 and 2.0, each present or not, exclusive or not.
RangeValidators ==
    {Range(g, min, minEx, max, maxEx) :
        g \in {NoGate, Since11}, min \in {Nil, <<2>>}, minEx \in BOOLEAN,
        max \in {Nil, <<4>>}, maxEx \in BOOLEAN}

Range12 == Range(NoGate, <<2>>, FALSE, <<4>>, FALSE)

LiteralValidators == {Literal(NoGate, GoString("s")), Literal(NoGate, GoFloat64(2))}

ReferenceValidators == {Reference(NoGate, "T"), Reference(Since11, "T")}

StructA == Struct(NoGate, <<StructField(NoGate, "a", PString, FALSE)>>, <<>>)

ArrayOfInt == ArrayOf(NoGate, PInt, Nil)

StructOrInt == Union(NoGate, <<StructA, PInt>>)

\* What a union alternative, an array element or a wrapped validator can be.
Children ==
    {PString, PInt, Primitive(Since11, "string"), Attributed(Until10, PInt),
     StructA, ArrayOfInt, StructOrInt}

AttributedValidators == {Attributed(g, inner) : g \in ValidateGates, inner \in Children}

ConstrainedValidators ==
    {Constrained(g, inner, Range(NoGate, <<2>>, minEx, <<4>>, FALSE)) :
        g \in {NoGate, Since11}, inner \in {PInt, PFloat, PString}, minEx \in BOOLEAN}

ArrayValidators ==
    {ArrayOf(g, element, len) :
        g \in {NoGate, Since11}, element \in Children, len \in {Nil, <<Range12>>}}

UnionValidators ==
    {Union(NoGate, alts) : alts \in SeqsUpTo(Children, MaxAlternatives)}
        \cup {Union(Since11, <<PString>>), Union(Until10, <<PInt, StructA>>)}

FieldChoices ==
    {StructField(g, name, PString, optional) :
        g \in {NoGate, Since11}, name \in {"a", "b"}, optional \in BOOLEAN}

SpreadChoices == {<<>>, <<PString>>, <<PInt, PString>>}

StructValidators ==
    {Struct(NoGate, fields, spread) :
        fields \in SeqsUpTo(FieldChoices, MaxFields), spread \in SpreadChoices}
        \cup {Struct(Since11, <<StructField(NoGate, "a", PString, FALSE)>>, <<>>),
              Struct(Until10, <<StructField(NoGate, "a", PString, TRUE)>>, <<PInt>>)}

\* Validators that hold no reference, other than structs.
ClosedValidators ==
    PrimitiveValidators \cup RangeValidators \cup LiteralValidators
        \cup AttributedValidators \cup ConstrainedValidators \cup ArrayValidators
        \cup UnionValidators

\* ctx.Definitions: empty, T an alias of string, and T defined through itself
\* (directly, through the alias U, through a union alternative).
DefinitionChoices ==
    {NoDefinitions,
     [name \in {"T"} |-> PString],
     [name \in {"T"} |-> Reference(NoGate, "T")],
     [name \in {"T", "U"} |-> IF name = "T" THEN Reference(NoGate, "U")
                              ELSE Reference(NoGate, "T")],
     [name \in {"T"} |-> Union(NoGate, <<PString, Reference(NoGate, "T")>>)]}

\* Object keys.
Keys == {"a", "b", "c"}

\* The keys of the objects in jsonValue, at any depth.
RECURSIVE KeysOf(_)
KeysOf(jsonValue) ==
    IF jsonValue.t = "map[string]interface {}"
    THEN DOMAIN jsonValue.obj
             \cup UNION {KeysOf(jsonValue.obj[key]) : key \in DOMAIN jsonValue.obj}
    ELSE IF jsonValue.t = "[]interface {}"
    THEN UNION {KeysOf(jsonValue.elems[i]) : i \in 1..Len(jsonValue.elems)}
    ELSE {}

\* The orders in which the map iterations of a call can yield the keys of
\* the objects in jsonValue; a value that holds no object has no keys to
\* order.
KeyOrders(jsonValue) ==
    LET keys == KeysOf(jsonValue)
    IN {order \in [1..Cardinality(keys) -> keys] :
           \A i, j \in 1..Cardinality(keys) : i # j => order[i] # order[j]}

Scalars ==
    {GoNil, GoBool(TRUE), GoString("s"), GoString("t")}
        \cup {GoFloat64(h) : h \in -1..MaxHalves}
        \cup {GoInt(n) : n \in 1..3} \cup {GoInt64(n) : n \in 1..3}

Arrays ==
    {GoArray(<<>>), GoArray(<<GoFloat64(2)>>), GoArray(<<GoString("s")>>),
     GoArray(<<GoFloat64(2), GoString("s")>>),
     GoArray(<<GoFloat64(2), GoFloat64(4), GoFloat64(3)>>),
     GoArray(<<GoObject([key \in {"a"} |-> GoFloat64(3)])>>)}

\* Objects over the keys a, b, c: each key absent or bound to one of a few values.
Objects ==
    {GoObject(obj) : obj \in UNION {[keys -> {GoString("s"), GoFloat64(3)}] :
                                       keys \in SUBSET Keys}}

Values == Scalars \cup Arrays \cup Objects

InitValidate ==
    /\ \/ /\ mainValidator \in ClosedValidators
          /\ jsonData \in Values
          /\ context \in [Version : ValidateVersions, Path : {<<>>},
                          Definitions : {NoDefinitions}]
       \/ /\ mainValidator \in StructValidators
          /\ jsonData \in Objects \cup {GoNil, GoArray(<<>>)}
          /\ context \in [Version : ValidateVersions, Path : {<<>>},
                          Definitions : {NoDefinitions}]
       \/ /\ mainValidator \in ReferenceValidators
          /\ jsonData \in Values
          /\ context \in [Version : ValidateVersions, Path : {<<>>},
                          Definitions : DefinitionChoices]
    /\ outcome = "pending"
    /\ validationErr = Nil
    /\ issues = <<>>
    /\ ParseIdle
    /\ CompareIdle
    /\ GateIdle
    /\ DocumentIdle
    /\ RegexIdle
    /\ ParserIdle

\* mainValidator.Validate(jsonData, ctx): the map iterations of the call
\* yield their keys in some order.
CallValidate ==
    /\ outcome = "pending"
    /\ \E order \in KeyOrders(jsonData) :
          LET r == Validate(mainValidator, jsonData, context, order, MaxHops)
          IN /\ outcome' = IF r.fatal THEN "crashed" ELSE "returned"
             /\ validationErr' = r.err
             /\ context' = [context EXCEPT !.Path = r.Path]
    /\ UNCHANGED <<mainValidator, jsonData, issues, versionVars, documentVars, regexVars, parserVars>>

\* The regex validator's check of the same value against a field of the
\* same scalar type.
CallValidateField ==
    /\ issues = <<>>
    /\ mainValidator.kind = "Primitive"
    /\ mainValidator.Since = <<>> /\ mainValidator.Until = <<>>
    /\ parseType(mainValidator.Type) # "MCDocTypeStruct"
    /\ issues' = <<validateField(jsonData, parseType(mainValidator.Type))>>
    /\ UNCHANGED <<mainValidator, jsonData, context, outcome, validationErr, versionVars, documentVars, regexVars, parserVars>>

NextValidate == CallValidate \/ CallValidateField

SpecValidate == InitValidate /\ [][NextValidate]_vars

----------------------------------------------------------------------------
(* PEGMCDocValidator.determineSchemaPath applied to one path *)

MaxPathLen == 5     \* most segments in a path drawn

\* v.schemaDir
SchemaDir == "vanilla-mcdoc"

KnownTypes ==
    {"worldgen", "advancement", "recipe", "loot_table", "structure", "dimension",
     "dimension_type", "biome", "configured_carver", "configured_feature",
     "placed_feature", "processor_list", "template_pool", "structure_set",
     "noise_settings", "density_function", "multi_noise_biome_source_parameter_list",
     "chat_type", "damage_type", "trim_pattern", "trim_material", "wolf_variant",
     "painting_variant", "jukebox_song", "banner_pattern", "enchantment",
     "item_modifier", "predicate", "tag", "function", "gametest"}

\* filepath.Clean on a relative path, segment by segment: empty and "."
\* segments go, ".." takes the segment before it with it, and the empty
\* path is ".".
RECURSIVE CleanLoop(_, _)
CleanLoop(segments, out) ==
    IF Len(segments) = 0 THEN out
    ELSE LET segment == Head(segments)
         IN IF segment \in {"", "."} THEN CleanLoop(Tail(segments), out)
            ELSE IF segment = ".." /\ Len(out) > 0 /\ out[Len(out)] # ".."
            THEN CleanLoop(Tail(segments), SubSeq(out, 1, Len(out) - 1))
            ELSE CleanLoop(Tail(segments), Append(out, segment))

Clean(segments) ==
    LET out == CleanLoop(segments, <<>>)
    IN IF Len(out) = 0 THEN <<".">> ELSE out

\* The index (from 1) of the first "data" segment of parts, 0 when there is none.
DataIndex(parts) ==
    IF \E i \in 1..Len(parts) : parts[i] = "data"
    THEN CHOOSE i \in 1..Len(parts) :
             parts[i] = "data" /\ \A j \in 1..(i - 1) : parts[j] # "data"
    ELSE 0

SchemaPathError == [err |-> TRUE, path |-> <<>>]

\* strings.Join(schemaPathParts, separator) + ".mcdoc", kept by segment.
JoinSchemaPath(typePath) ==
    LET schemaPathParts == <<SchemaDir, "java", "data">> \o typePath
    IN [err |-> FALSE,
        path |-> [schemaPathParts EXCEPT ![Len(schemaPathParts)] = @ \o ".mcdoc"]]

\* determineSchemaPath that never takes the first segment for a namespace.
determineSchemaPathKeepingNamespace(path) ==
    LET parts == Clean(path)
        dataIndex == DataIndex(parts)
    IN IF dataIndex = 0 \/ dataIndex + 2 > Len(parts) THEN SchemaPathError
       ELSE JoinSchemaPath(SubSeq(parts, dataIndex + 1, Len(parts) - 1))

determineSchemaPath(path) ==
    LET parts == Clean(path)
        dataIndex == DataIndex(parts)
    IN IF dataIndex = 0 \/ dataIndex + 2 > Len(parts) THEN SchemaPathError
       ELSE LET afterData == SubSeq(parts, dataIndex + 1, Len(parts))
                withoutFile == SubSeq(afterData, 1, Len(afterData) - 1)
            IN IF Len(withoutFile) = 0 THEN SchemaPathError
               ELSE LET typePath ==
                            IF Len(withoutFile) > 1 /\ withoutFile[1] \notin KnownTypes
                            THEN Tail(withoutFile)
                            ELSE withoutFile
                    IN IF Len(typePath) = 0 THEN SchemaPathError
                       ELSE JoinSchemaPath(typePath)

PathSegments ==
    {"pack", "data", "ns", "worldgen", "noise_settings", "test.json", ".", ".."}

JSONPaths == UNION {[1..n -> PathSegments] : n \in 0..MaxPathLen}

InitSchemaPath ==
    /\ jsonPath \in JSONPaths
    /\ schemaPath = <<>>
    /\ statements = <<>>
    /\ ParseIdle
    /\ CompareIdle
    /\ GateIdle
    /\ ValidateIdle
    /\ RegexIdle
    /\ ParserIdle

CallDetermineSchemaPath ==
    /\ schemaPath = <<>>
    /\ schemaPath' = <<determineSchemaPath(jsonPath)>>
    /\ UNCHANGED <<jsonPath, statements, versionVars, validateVars, regexVars, parserVars>>

NextSchemaPath == CallDetermineSchemaPath

SpecSchemaPath == InitSchemaPath /\ [][NextSchemaPath]_vars

----------------------------------------------------------------------------
(* PEGMCDocValidator.ValidateJSON applied to one schema and one document *)

MaxStatements == 2      \* most statements in a parsed schema

\* A statement as the parser builds it: its type, its name (the Name of a
\* struct or alias), and the validator built for it.
Statement(stmt, name, validator) == [stmt |-> stmt, Name |-> name, Validator |-> validator]

\* definitions[name] = validator
Define(definitions, name, validator) ==
    [n \in DOMAIN definitions \cup {name} |->
        IF n = name THEN validator ELSE definitions[n]]

\* The first pass of SchemaConverter.ConvertToValidators over stmts.
RECURSIVE ConvertToValidators(_, _)
ConvertToValidators(stmts, definitions) ==
    IF Len(stmts) = 0 THEN definitions
    ELSE LET stmt == Head(stmts)
             next ==
                 CASE stmt.stmt = "StructStatement" ->
                        Define(definitions, stmt.Name, Struct(NoGate, <<>>, <<>>))
                   [] stmt.stmt = "TypeAliasStatement" ->
                        Define(definitions, stmt.Name, Primitive(NoGate, "any"))
                   [] stmt.stmt = "DispatchStatement" ->
                        Define(definitions, "_dispatch", Primitive(NoGate, "any"))
                   [] OTHER -> definitions
         IN ConvertToValidators(Tail(stmts), next)

\* strings.Contains(strings.ToLower(name), "settings") or (..., "generator"),
\* for the struct names drawn.
NamesSettingsOrGenerator(name) == name \in {"NoiseSettings", "ChunkGenerator"}

\* SchemaConverter.GetMainValidator: <<>> for nil, <<validator>> otherwise.
GetMainValidator(stmts, definitions) ==
    LET indexes == 1..Len(stmts)
        First(S) == CHOOSE i \in S : \A j \in S : i <= j
        dispatches == {i \in indexes : stmts[i].stmt = "DispatchStatement"
                                          /\ "_dispatch" \in DOMAIN definitions}
        mainStructs == {i \in indexes : /\ stmts[i].stmt = "StructStatement"
                                        /\ NamesSettingsOrGenerator(stmts[i].Name)
                                        /\ stmts[i].Name \in DOMAIN definitions}
        structs == {i \in indexes : /\ stmts[i].stmt = "StructStatement"
                                    /\ stmts[i].Name \in DOMAIN definitions}
    IN IF dispatches # {} THEN <<definitions["_dispatch"]>>
       ELSE IF mainStructs # {} THEN <<definitions[stmts[First(mainStructs)].Name]>>
       ELSE IF structs # {} THEN <<definitions[stmts[First(structs)].Name]>>
       ELSE <<>>

\* SchemaConverter.CreateBasicStructValidator
CreateBasicStructValidator == BasicStruct(NoGate)

\* struct Biome { temperature: float, downfall: float @ 0..1 }
Biome ==
    Struct(NoGate,
           <<StructField(NoGate, "temperature", PFloat, FALSE),
             StructField(NoGate, "downfall",
                         Constrained(NoGate, PFloat,
                                     Range(NoGate, <<0>>, FALSE, <<2>>, FALSE)),
                         FALSE)>>,
           <<>>)

StatementChoices ==
    {Statement("DispatchStatement", "", Biome),
     Statement("StructStatement", "Biome", Biome),
     Statement("StructStatement", "NoiseSettings", StructA),
     Statement("TypeAliasStatement", "T", PString),
     Statement("UseStatement", "", Primitive(NoGate, "any"))}

\* Documents with temperature and downfall each absent, 0.5 or 1.5.
Documents ==
    {GoObject(obj) : obj \in UNION {[keys -> {GoFloat64(1), GoFloat64(3)}] :
                                       keys \in SUBSET {"temperature", "downfall"}}}

DocumentPaths ==
    {<<"data", "worldgen", "biome", "test.json">>,
     <<"pack", "data", "ns", "worldgen", "biome", "test.json">>,
     <<"pack", "test.json">>}

\* The schema file and the JSON file have been read and parsed: statements is
\* what the parser built, jsonData what json.Unmarshal produced.
InitValidateJSON ==
    /\ jsonPath \in DocumentPaths
    /\ schemaPath = <<>>
    /\ statements \in SeqsUpTo(StatementChoices, MaxStatements)
    /\ mainValidator = Primitive(NoGate, "any")
    /\ jsonData \in Documents
    /\ context \in [Version : ValidateVersions, Path : {<<>>},
                    Definitions : {NoDefinitions}]
    /\ outcome = "pending"
    /\ validationErr = Nil
    /\ issues = <<>>
    /\ ParseIdle
    /\ CompareIdle
    /\ GateIdle
    /\ RegexIdle
    /\ ParserIdle

\* PEGMCDocValidator.ValidateJSON(jsonPath) with v.targetVersion in
\* context.Version.
CallValidateJSON ==
    /\ outcome = "pending"
    /\ schemaPath' = <<determineSchemaPath(jsonPath)>>
    /\ IF determineSchemaPath(jsonPath).err
       THEN /\ outcome' = "returned"
            /\ validationErr' =
                   <<ValidationError(<<>>, <<"failed to determine schema path">>)>>
            /\ UNCHANGED <<mainValidator, context>>
       ELSE LET validatorMap == ConvertToValidators(statements, NoDefinitions)
                ctx == [context EXCEPT !.Definitions = validatorMap]
                found == GetMainValidator(statements, validatorMap)
                main == IF found = <<>> THEN CreateBasicStructValidator ELSE found[1]
            IN \E order \in KeyOrders(jsonData) :
                  LET r == Validate(main, jsonData, ctx, order, MaxHops)
                  IN /\ mainValidator' = main
                     /\ outcome' = IF r.fatal THEN "crashed" ELSE "returned"
                     /\ validationErr' = r.err
                     /\ context' = [ctx EXCEPT !.Path = r.Path]
    /\ UNCHANGED <<jsonData, issues, jsonPath, statements, versionVars, regexVars, parserVars>>

NextValidateJSON == CallValidateJSON

SpecValidateJSON == InitValidateJSON /\ [][NextValidateJSON]_vars

----------------------------------------------------------------------------
(* The regex-based validator: spread structs and validateStruct (main.go) *)

MaxSpreadFields == 2

\* A trimmed line of schema text, kept as what the parser reads off it: what
\* kind of line it is, the field it declares, and the values of the
\* #[since="..."] and #[until="..."] attributes written on it (<<>> when the
\* attribute is not on the line).
SchemaLine(kind, name, since, until) ==
    [kind |-> kind, Name |-> name, Optional |-> FALSE, since |-> since, until |-> until]

\* dispatch minecraft:resource[k] to struct Outer {
DispatchLine == SchemaLine("dispatch", "", <<>>, <<>>)
\* #[since="..."] or #[until="..."] on a line of its own
AttrLine(gate) == SchemaLine("attr", "", gate.Since, gate.Until)
\* [attributes] ...struct Base {
SpreadLine(gate) == SchemaLine("spread", "", gate.Since, gate.Until)
\* [attributes] name: int,
FieldLine(name, gate) == SchemaLine("field", name, gate.Since, gate.Until)
\* }
CloseLine == SchemaLine("close", "", <<>>, <<>>)

\* strings.Contains(line, ":"): a field line has its colon, the dispatch line
\* that of the resource identifier.
ContainsColon(line) == line.kind \in {"field", "dispatch"}

\* strings.Count(line, "{") - strings.Count(line, "}")
BraceDelta(line) ==
    CASE line.kind \in {"dispatch", "spread"} -> 1
      [] line.kind = "close" -> -1
      [] OTHER -> 0

\* MCDocValidator.extractVersionSince and extractVersionUntil.
extractVersionSince(line) == extractVersion(line.since)
extractVersionUntil(line) == extractVersion(line.until)

\* The loop of extractVersionFromContext from line j down: each line read
\* overwrites what the nearer lines gave, and the loop stops after reading an
\* earlier line that holds a colon.
RECURSIVE ContextLoop(_, _, _, _, _)
ContextLoop(schemaLines, currentIndex, j, sinceVersion, untilVersion) ==
    IF j < 1 \/ j <= currentIndex - 3
    THEN [VersionSince |-> sinceVersion, VersionUntil |-> untilVersion]
    ELSE LET line == schemaLines[j]
             since == IF extractVersionSince(line) # <<>>
                      THEN extractVersionSince(line) ELSE sinceVersion
             until == IF extractVersionUntil(line) # <<>>
                      THEN extractVersionUntil(line) ELSE untilVersion
         IN IF j < currentIndex /\ ContainsColon(line)
            THEN [VersionSince |-> since, VersionUntil |-> until]
            ELSE ContextLoop(schemaLines, currentIndex, j - 1, since, until)

\* MCDocValidator.extractVersionFromContext; lines are numbered from 1.
extractVersionFromContext(schemaLines, currentIndex) ==
    ContextLoop(schemaLines, currentIndex, currentIndex, <<>>, <<>>)

\* MCDocValidator.parseField on a field line, with the version constraints
\* its caller then stores in the field.
parseField(line, versionSince, versionUntil, target_) ==
    [Name |-> line.Name, Optional |-> line.Optional, Type |-> parseType("int"),
     VersionSince |-> versionSince, VersionUntil |-> versionUntil,
     IsAvailable |-> isFieldAvailableWithConstraints(versionSince, versionUntil, target_)]

\* The loop of parseSchemaContent over the lines before the spread: each
\* top-level field line is stored with the constraints of its context.
RECURSIVE parseTopLevelFields(_, _, _, _)
parseTopLevelFields(schemaLines, i, target_, fields) ==
    IF i > Len(schemaLines) \/ schemaLines[i].kind = "spread" THEN fields
    ELSE IF schemaLines[i].kind = "field"
    THEN LET own == extractVersionFromContext(schemaLines, i)
         IN parseTopLevelFields(schemaLines, i + 1, target_,
                Define(fields, schemaLines[i].Name,
                       parseField(schemaLines[i], own.VersionSince, own.VersionUntil, target_)))
    ELSE parseTopLevelFields(schemaLines, i + 1, target_, fields)

\* The later of two since constraints, as the spread's one is applied.
ApplySpreadSince(fieldSince, spreadVersionSince) ==
    IF spreadVersionSince # <<>>
       /\ (fieldSince = <<>> \/ Compare(fieldSince[1], spreadVersionSince[1]) < 0)
    THEN spreadVersionSince ELSE fieldSince

\* The earlier of two until constraints, as the spread's one is applied.
ApplySpreadUntil(fieldUntil, spreadVersionUntil) ==
    IF spreadVersionUntil # <<>>
       /\ (fieldUntil = <<>> \/ Compare(fieldUntil[1], spreadVersionUntil[1]) > 0)
    THEN spreadVersionUntil ELSE fieldUntil

\* The loop of parseSpreadStruct from line i on.
RECURSIVE ParseSpreadLoop(_, _, _, _, _, _, _)
ParseSpreadLoop(schemaLines, i, braceLevel, foundStart, spread, target_, fields) ==
    IF i > Len(schemaLines) THEN fields
    ELSE LET currentLine == schemaLines[i]
             level == braceLevel + BraceDelta(currentLine)
             found == foundStart \/ BraceDelta(currentLine) > 0
         IN IF found /\ level <= 0 THEN fields
            ELSE IF found /\ level > 0 /\ currentLine.kind = "field"
            THEN LET own == extractVersionFromContext(schemaLines, i)
                     field == parseField(currentLine,
                                  ApplySpreadSince(own.VersionSince, spread.VersionSince),
                                  ApplySpreadUntil(own.VersionUntil, spread.VersionUntil),
                                  target_)
                 IN ParseSpreadLoop(schemaLines, i + 1, level, found, spread, target_,
                                    Define(fields, field.Name, field))
            ELSE ParseSpreadLoop(schemaLines, i + 1, level, found, spread, target_, fields)

\* MCDocValidator.parseSpreadStruct: the fields of the main struct after the
\* spread on line currentIndex has been read.
parseSpreadStruct(fields, schemaLines, currentIndex, target_) ==
    ParseSpreadLoop(schemaLines, currentIndex, 0, FALSE,
                    extractVersionFromContext(schemaLines, currentIndex), target_, fields)

\* The first loop of validateStruct, over the fields in map order.
RECURSIVE RequiredLoop(_, _, _, _)
RequiredLoop(jsonObj, fields, order, i) ==
    IF i > Len(order) THEN <<>>
    ELSE LET fieldName == order[i]
             field == fields[fieldName]
             rest == RequiredLoop(jsonObj, fields, order, i + 1)
         IN IF ~field.IsAvailable THEN rest
            ELSE IF fieldName \notin DOMAIN jsonObj
            THEN IF ~field.Optional
                 THEN <<<<"Required field", fieldName, "is missing">>>> \o rest
                 ELSE rest
            ELSE LET fieldIssues == validateField(jsonObj[fieldName], field.Type)
                 IN [k \in 1..Len(fieldIssues) |-> <<"Field", fieldName>> \o fieldIssues[k]]
                        \o rest

\* The second loop of validateStruct, over the keys of the JSON object.
RECURSIVE UnknownLoop(_, _, _)
UnknownLoop(fields, order, i) ==
    IF i > Len(order) THEN <<>>
    ELSE IF order[i] \notin DOMAIN fields
    THEN <<<<"Unknown field", order[i]>>>> \o UnknownLoop(fields, order, i + 1)
    ELSE UnknownLoop(fields, order, i + 1)

\* MCDocValidator.validateStruct at the root path.
validateStruct(jsonObj, fields, fieldOrder, keyOrder) ==
    RequiredLoop(jsonObj, fields, fieldOrder, 1) \o UnknownLoop(fields, keyOrder, 1)

\* The orders in which Go may range over a map with the given keys.
MapOrders(keys) ==
    {order \in [1..Cardinality(keys) -> keys] :
        \A i, j \in 1..Cardinality(keys) : i # j => order[i] # order[j]}

\* Schema texts: the dispatch line, at most one line before the spread, the
\* spread line, its fields (each with its attributes on its own line or on a
\* line above it), and the two closing braces.
Since12 == Gate(<<"1", ".", "2">>, <<>>)
Until11 == Gate(<<>>, <<"1", ".", "1">>)
LineGates == {NoGate, Since12, Until11}
TargetVersions == {Version(1, 0, 0), Version(1, 2, 0)}

LinesBeforeSpread ==
    {<<>>} \cup {<<AttrLine(g)>> : g \in LineGates \ {NoGate}}
           \cup {<<FieldLine("b", g)>> : g \in LineGates}

FieldEntries ==
    {<<FieldLine(n, g)>> : n \in {"a", "c"}, g \in LineGates}
        \cup {<<AttrLine(g), FieldLine(n, NoGate)>> : n \in {"a", "c"}, g \in LineGates \ {NoGate}}

RECURSIVE SpreadBodies(_)
SpreadBodies(n) ==
    IF n = 0 THEN {<<>>}
    ELSE SpreadBodies(n - 1)
            \cup {body \o entry : body \in SpreadBodies(n - 1), entry \in FieldEntries}

SchemaTexts ==
    {<<DispatchLine>> \o before \o <<SpreadLine(g)>> \o body \o <<CloseLine, CloseLine>> :
        before \in LinesBeforeSpread, g \in LineGates, body \in SpreadBodies(MaxSpreadFields)}

\* The line holding the spread.
SpreadIndex(schemaLines) ==
    CHOOSE i \in 1..Len(schemaLines) : schemaLines[i].kind = "spread"

RegexDocuments ==
    {GoObject([key \in keys |-> GoFloat64(2)]) : keys \in SUBSET {"a", "b"}}

InitRegex ==
    /\ ParseIdle /\ CompareIdle /\ GateIdle /\ DocumentIdle /\ ParserIdle
    /\ lines \in SchemaTexts
    /\ targetVer \in TargetVersions
    /\ mainStruct = parseTopLevelFields(lines, 1, targetVer, <<>>)
    /\ stage = "dispatch read"
    /\ mainValidator = Primitive(NoGate, "any")
    /\ jsonData \in RegexDocuments
    /\ context = [Version |-> ZeroVersion, Path |-> <<>>, Definitions |-> NoDefinitions]
    /\ outcome = "pending"
    /\ validationErr = Nil
    /\ issues = <<>>

\* parseSchemaContent reaching the spread line and calling parseSpreadStruct.
CallParseSpreadStruct ==
    /\ stage = "dispatch read"
    /\ mainStruct' = parseSpreadStruct(mainStruct, lines, SpreadIndex(lines), targetVer)
    /\ stage' = "spread parsed"
    /\ UNCHANGED <<versionVars, documentVars, parserVars, lines, targetVer, mainValidator, jsonData,
                   context, outcome, validationErr, issues>>

\* validateJSON calling validateStruct on the document with the main struct.
CallValidateStruct ==
    /\ stage = "spread parsed"
    /\ \E fieldOrder \in MapOrders(DOMAIN mainStruct),
          keyOrder \in MapOrders(DOMAIN jsonData.obj) :
          issues' = <<validateStruct(jsonData.obj, mainStruct, fieldOrder, keyOrder)>>
    /\ stage' = "validated"
    /\ UNCHANGED <<versionVars, documentVars, parserVars, lines, targetVer, mainStruct, mainValidator,
                   jsonData, context, outcome, validationErr>>

NextRegex == CallParseSpreadStruct \/ CallValidateStruct

SpecRegex == InitRegex /\ [][NextRegex]_vars

----------------------------------------------------------------------------
(* The PEG parser's builders (part_019, go-version/statement_builder.go,  *)
(* go-version/tree_builder.go)                                             *)

MaxModuleLen == 2
MaxTreeOps == 4

\* expressions.go: the expressions the builder stacks.
PathSegment(value, isSuper) == [Value |-> value, IsSuper |-> isSuper]
Path(segments, isAbsolute) ==
    [kind |-> "Path", Segments |-> segments, IsAbsolute |-> isAbsolute]
Identifier(name) == [kind |-> "Identifier", Name |-> name]
StringLiteral(value) == [kind |-> "StringLiteral", Value |-> value]

UseStatement(path) == [kind |-> "UseStatement", Path |-> path]
StructStatement(name, validator) ==
    [kind |-> "StructStatement", Name |-> name, Validator |-> validator]

\* TreeBuilder.PushNode
PushNode(tree, nodeType) ==
    LET id == Len(tree.nodes) + 1
        node == [Type |-> nodeType, Value |-> Nil, Children |-> <<>>,
                 Parent |-> tree.Current]
        allocated == Append(tree.nodes, node)
    IN [Root |-> IF tree.Root = 0 THEN id ELSE tree.Root,
        Current |-> id,
        Stack |-> Append(tree.Stack, tree.Current),
        nodes |-> IF tree.Current # 0
                  THEN [allocated EXCEPT ![tree.Current].Children = Append(@, id)]
                  ELSE allocated]

\* TreeBuilder.PopNode
PopNode(tree) ==
    IF Len(tree.Stack) > 0
    THEN [tree EXCEPT !.Current = tree.Stack[Len(tree.Stack)],
                      !.Stack = SubSeq(tree.Stack, 1, Len(tree.Stack) - 1)]
    ELSE [tree EXCEPT !.Current = 0]

\* TreeBuilder.AddValue
AddValue(tree, nodeType, value) ==
    LET id == Len(tree.nodes) + 1
        node == [Type |-> nodeType, Value |-> <<value>>, Children |-> <<>>,
                 Parent |-> tree.Current]
        allocated == Append(tree.nodes, node)
    IN IF tree.Current # 0
       THEN [tree EXCEPT !.nodes =
                [allocated EXCEPT ![tree.Current].Children = Append(@, id)]]
       ELSE [tree EXCEPT !.nodes = allocated, !.Root = id, !.Current = id]

\* StatementBuilder.PushIdentifier
PushIdentifier(builder, name) ==
    [builder EXCEPT !.ExprStack = Append(@, Identifier(name)),
                    !.PathSegmentStack = Append(@, PathSegment(name, FALSE))]

\* StatementBuilder.PushString, on the text between the quotes
PushString(builder, value) ==
    [builder EXCEPT !.ExprStack = Append(@, StringLiteral(value))]

\* StatementBuilder.PushSuperKeyword
PushSuperKeyword(builder) ==
    [builder EXCEPT !.PathSegmentStack = Append(@, PathSegment("super", TRUE))]

\* StatementBuilder.BuildPathFromSegments
BuildPathFromSegments(builder, hasLeadingDoubleColon) ==
    [builder EXCEPT
        !.PathSegmentStack = <<>>,
        !.ExprStack = Append(@, Path(builder.PathSegmentStack, hasLeadingDoubleColon))]

\* StatementBuilder.PopPathAndAddUseStatement
PopPathAndAddUseStatement(builder) ==
    IF Len(builder.ExprStack) = 0 THEN builder
    ELSE LET pathExpr == builder.ExprStack[Len(builder.ExprStack)]
             popped == [builder EXCEPT !.ExprStack = SubSeq(@, 1, Len(@) - 1)]
         IN IF pathExpr.kind = "Path"
            THEN [popped EXCEPT !.Statements = Append(@, UseStatement(pathExpr))]
            ELSE popped

\* buildStructFromTree
StructPlaceholder == Identifier("StructPlaceholder")

\* The index of the first Identifier in the stack, 0 when there is none.
FirstIdentifier(stack) ==
    IF \E i \in 1..Len(stack) : stack[i].kind = "Identifier"
    THEN CHOOSE i \in 1..Len(stack) :
            /\ stack[i].kind = "Identifier"
            /\ \A k \in 1..(i - 1) : stack[k].kind # "Identifier"
    ELSE 0

\* StatementBuilder.PopStructAndAddStatement
PopStructAndAddStatement(builder) ==
    IF Len(builder.ExprStack) < 1 THEN builder
    ELSE LET stack == SubSeq(builder.ExprStack, 1, Len(builder.ExprStack) - 1)
             nameIndex == FirstIdentifier(stack)
             validator == Primitive(NoGate, "struct")
         IN IF nameIndex = 0 THEN [builder EXCEPT !.ExprStack = stack]
            ELSE [builder EXCEPT
                    !.ExprStack = SubSeq(stack, 1, nameIndex - 1)
                                    \o SubSeq(stack, nameIndex + 1, Len(stack)),
                    !.Statements = Append(@, StructStatement(stack[nameIndex], validator)),
                    !.Definitions = Define(@, stack[nameIndex].Name, validator)]

\* A module as the grammar reads it.  A type is a primitive keyword or a
\* reference to a name; a field is written with or without "?".
PrimitiveType(name) == [primitive |-> TRUE, name |-> name]
ReferenceType(name) == [primitive |-> FALSE, name |-> name]
NamedField(name, optional, type) == [name |-> name, optional |-> optional, type |-> type]

ModuleStatement(stmt, name, absolute, segments, fields, type, values) ==
    [stmt |-> stmt, name |-> name, absolute |-> absolute, segments |-> segments,
     fields |-> fields, type |-> type, values |-> values]
\* use [::]segment::segment
UseStmt(absolute, segments) ==
    ModuleStatement("use", "", absolute, segments, <<>>, PrimitiveType("any"), <<>>)
\* struct Name { field, field }
StructDef(name, fields) ==
    ModuleStatement("struct", name, FALSE, <<>>, fields, PrimitiveType("any"), <<>>)
\* type Name = Type
TypeAlias(name, type) == ModuleStatement("type", name, FALSE, <<>>, <<>>, type, <<>>)
\* enum(string) Name { Value = "value" }
EnumDef(name, values) ==
    ModuleStatement("enum", name, FALSE, <<>>, <<>>, PrimitiveType("string"), values)

\* A builder action the parse records, to be run by Execute; last marks the
\* final action of a top-level statement.
Action(op, name, flag) == [op |-> op, name |-> name, flag |-> flag, last |-> FALSE]

\* Rule Type: PrimitiveType has no action; a name is matched by ReferenceType
\* through Path, whose PathSegment is an Identifier.
TypeActions(type) ==
    IF type.primitive THEN <<>>
    ELSE <<Action("PushIdentifier", type.name, FALSE),
           Action("BuildPathFromSegments", "", FALSE)>>

\* Rules PathSegments and PathSegment.
PathSegmentsActions(segments) ==
    [i \in 1..Len(segments) |->
        IF segments[i] = "super" THEN Action("PushSuperKeyword", "", FALSE)
        ELSE Action("PushIdentifier", segments[i], FALSE)]

\* Rules Field, NamedField and FieldName.
FieldActions(field) ==
    <<Action("BeginField", "", FALSE),
      Action("PushIdentifier", field.name, FALSE),
      Action("MarkFieldOptional", "", FALSE),
      Action("AddFieldColon", "", FALSE)>>
        \o TypeActions(field.type) \o <<Action("EndField", "", FALSE)>>

RECURSIVE FieldListActions(_)
FieldListActions(fields) ==
    IF fields = <<>> THEN <<>>
    ELSE FieldActions(Head(fields)) \o FieldListActions(Tail(fields))

RECURSIVE EnumValueListActions(_)
EnumValueListActions(values) ==
    IF values = <<>> THEN <<>>
    ELSE <<Action("PushIdentifier", Head(values)[1], FALSE),
           Action("PushString", Head(values)[2], FALSE)>>
            \o EnumValueListActions(Tail(values))

\* Rule Statement: the actions of one top-level statement.
StatementActions(statement) ==
    LET recorded ==
            CASE statement.stmt = "use" ->
                    PathSegmentsActions(statement.segments)
                        \o <<Action("BuildPathFromSegments", "", statement.absolute),
                             Action("PopPathAndAddUseStatement", "", FALSE)>>
              [] statement.stmt = "struct" ->
                    <<Action("PushIdentifier", statement.name, FALSE),
                      Action("BeginStruct", "", FALSE)>>
                        \o FieldListActions(statement.fields)
                        \o <<Action("EndStruct", "", FALSE),
                             Action("PopStructAndAddStatement", "", FALSE)>>
              [] statement.stmt = "type" ->
                    <<Action("PushIdentifier", statement.name, FALSE)>>
                        \o TypeActions(statement.type)
              [] statement.stmt = "enum" ->
                    <<Action("PushIdentifier", statement.name, FALSE)>>
                        \o EnumValueListActions(statement.values)
    IN [i \in 1..Len(recorded) |->
            IF i = Len(recorded) THEN [recorded[i] EXCEPT !.last = TRUE] ELSE recorded[i]]

\* Rule Start: the actions of the statements, in source order.
RECURSIVE ModuleActions(_)
ModuleActions(module) ==
    IF module = <<>> THEN <<>>
    ELSE StatementActions(Head(module)) \o ModuleActions(Tail(module))

\* The statements a module is made of.
ModuleStatements ==
    {UseStmt(FALSE, <<"super", "a">>), UseStmt(TRUE, <<"a", "b">>), UseStmt(FALSE, <<"a">>),
     StructDef("S", <<>>),
     StructDef("S", <<NamedField("f", FALSE, PrimitiveType("int")),
                      NamedField("g", TRUE, ReferenceType("T"))>>),
     StructDef("R", <<NamedField("g", FALSE, PrimitiveType("string"))>>),
     TypeAlias("T", PrimitiveType("int")), TypeAlias("T", ReferenceType("S")),
     EnumDef("E", <<<<"A", "a">>>>)}

Modules == SeqsUpTo(ModuleStatements, MaxModuleLen) \ {<<>>}

\* Parse has succeeded on the module and Execute is about to run: the
\* builders are as Init leaves them.
InitBuilder ==
    /\ ParseIdle /\ CompareIdle /\ GateIdle /\ ValidateIdle /\ DocumentIdle /\ RegexIdle
    /\ buffer \in Modules
    /\ actions = ModuleActions(buffer)
    /\ pc = 0
    /\ sb = NewStatementBuilder
    /\ tb = NewTreeBuilder
    /\ opened = <<>>
    /\ input = ""
    /\ accepted = <<>>

\* Execute reaching a recorded action of the given name.
Executes(op) == pc < Len(actions) /\ actions[pc + 1].op = op /\ pc' = pc + 1

builderFrame == <<versionVars, validateVars, documentVars, regexVars, buffer, actions,
                  input, accepted>>

ExecutePushIdentifier ==
    /\ Executes("PushIdentifier")
    /\ sb' = PushIdentifier(sb, actions[pc + 1].name)
    /\ UNCHANGED <<builderFrame, tb, opened>>

ExecutePushString ==
    /\ Executes("PushString")
    /\ sb' = PushString(sb, actions[pc + 1].name)
    /\ UNCHANGED <<builderFrame, tb, opened>>

ExecutePushSuperKeyword ==
    /\ Executes("PushSuperKeyword")
    /\ sb' = PushSuperKeyword(sb)
    /\ UNCHANGED <<builderFrame, tb, opened>>

ExecuteBuildPathFromSegments ==
    /\ Executes("BuildPathFromSegments")
    /\ sb' = BuildPathFromSegments(sb, actions[pc + 1].flag)
    /\ UNCHANGED <<builderFrame, tb, opened>>

ExecutePopPathAndAddUseStatement ==
    /\ Executes("PopPathAndAddUseStatement")
    /\ sb' = PopPathAndAddUseStatement(sb)
    /\ UNCHANGED <<builderFrame, tb, opened>>

\* StatementBuilder.BeginStruct
ExecuteBeginStruct ==
    /\ Executes("BeginStruct")
    /\ tb' = PushNode(tb, "struct")
    /\ opened' = Append(opened, tb.Current)
    /\ UNCHANGED <<builderFrame, sb>>

\* StatementBuilder.EndStruct
ExecuteEndStruct ==
    /\ Executes("EndStruct")
    /\ tb' = PopNode(tb)
    /\ sb' = [sb EXCEPT !.ExprStack = Append(@, StructPlaceholder)]
    /\ opened' = SubSeq(opened, 1, Len(opened) - 1)
    /\ UNCHANGED builderFrame

\* StatementBuilder.BeginField
ExecuteBeginField ==
    /\ Executes("BeginField")
    /\ tb' = PushNode(tb, "field")
    /\ opened' = Append(opened, tb.Current)
    /\ UNCHANGED <<builderFrame, sb>>

\* StatementBuilder.EndField
ExecuteEndField ==
    /\ Executes("EndField")
    /\ tb' = PopNode(tb)
    /\ opened' = SubSeq(opened, 1, Len(opened) - 1)
    /\ UNCHANGED <<builderFrame, sb>>

\* StatementBuilder.MarkFieldOptional
ExecuteMarkFieldOptional ==
    /\ Executes("MarkFieldOptional")
    /\ tb' = AddValue(tb, "optional", TRUE)
    /\ UNCHANGED <<builderFrame, sb, opened>>

\* StatementBuilder.AddFieldColon
ExecuteAddFieldColon ==
    /\ Executes("AddFieldColon")
    /\ tb' = AddValue(tb, "colon", TRUE)
    /\ UNCHANGED <<builderFrame, sb, opened>>

ExecutePopStructAndAddStatement ==
    /\ Executes("PopStructAndAddStatement")
    /\ sb' = PopStructAndAddStatement(sb)
    /\ UNCHANGED <<builderFrame, tb, opened>>

NextBuilder ==
    \/ ExecutePushIdentifier
    \/ ExecutePushString
    \/ ExecutePushSuperKeyword
    \/ ExecuteBuildPathFromSegments
    \/ ExecutePopPathAndAddUseStatement
    \/ ExecuteBeginStruct
    \/ ExecuteEndStruct
    \/ ExecuteBeginField
    \/ ExecuteEndField
    \/ ExecuteMarkFieldOptional
    \/ ExecuteAddFieldColon
    \/ ExecutePopStructAndAddStatement

SpecBuilder == InitBuilder /\ [][NextBuilder]_vars

\* TreeBuilder on its own: any sequence of PushNode, AddValue and PopNode
\* calls in which every PopNode matches an earlier PushNode.
NodeTypes == {"struct", "field"}
ValueTypes == {"optional", "colon"}

InitTree ==
    /\ ParseIdle /\ CompareIdle /\ GateIdle /\ ValidateIdle /\ DocumentIdle /\ RegexIdle
    /\ ParserIdle

treeFrame == <<versionVars, validateVars, documentVars, regexVars, buffer, actions, sb,
               input, accepted>>

CallPushNode ==
    /\ pc < MaxTreeOps
    /\ \E nodeType \in NodeTypes : tb' = PushNode(tb, nodeType)
    /\ opened' = Append(opened, tb.Current)
    /\ pc' = pc + 1
    /\ UNCHANGED treeFrame

CallAddValue ==
    /\ pc < MaxTreeOps
    /\ \E nodeType \in ValueTypes : tb' = AddValue(tb, nodeType, TRUE)
    /\ pc' = pc + 1
    /\ UNCHANGED <<treeFrame, opened>>

CallPopNode ==
    /\ pc < MaxTreeOps
    /\ opened # <<>>
    /\ tb' = PopNode(tb)
    /\ opened' = SubSeq(opened, 1, Len(opened) - 1)
    /\ pc' = pc + 1
    /\ UNCHANGED treeFrame

NextTree == CallPushNode \/ CallAddValue \/ CallPopNode

SpecTree == InitTree /\ [][NextTree]_vars

----------------------------------------------------------------------------
(* The grammar of the PEG parser (part_019 120-245) *)

MaxItems == 2

\* Parsing expressions: a literal, a character class, any character, a rule,
\* a sequence, an ordered choice, e*, e+, e? and !e.
Str(str) == [op |-> "str", str |-> str]
Class(chars) == [op |-> "class", chars |-> chars]
Dot == [op |-> "dot"]
R(rule) == [op |-> "rule", rule |-> rule]
Sequence(items) == [op |-> "sequence", items |-> items]
Choice(items) == [op |-> "choice", items |-> items]
Star(item) == [op |-> "star", item |-> item]
Plus(item) == [op |-> "plus", item |-> item]
Query(item) == [op |-> "query", item |-> item]
Not(item) == [op |-> "not", item |-> item]

Lower ==
    {"a", "b", "c", "d", "e", "f", "g", "h", "i", "j", "k", "l", "m",
     "n", "o", "p", "q", "r", "s", "t", "u", "v", "w", "x", "y", "z"}
Decimal == {"0", "1", "2", "3", "4", "5", "6", "7", "8", "9"}
Upper ==
    {"A", "B", "C", "D", "E", "F", "G", "H", "I", "J", "K", "L", "M",
     "N", "O", "P", "Q", "R", "S", "T", "U", "V", "W", "X", "Y", "Z"}

\* The rules, in the order of the grammar file; "_" is written Spacing.  The
\* actions between braces are left to the builder model above.
Grammar ==
    [Start |-> Sequence(<<R("Spacing"), Star(R("Statement")), R("Spacing"), Not(Dot)>>),
     Statement |->
        Sequence(<<Star(R("Attribute")), R("Spacing"),
                   Choice(<<R("UseStmt"), R("TypeAlias"), R("StructDef"), R("EnumDef"),
                            R("DispatchStmt")>>),
                   R("Spacing")>>),
     UseStmt |-> Sequence(<<Str("use"), R("Spacing"), R("Path")>>),
     Path |-> Choice(<<Sequence(<<R("DoubleColon"), R("PathSegments")>>), R("PathSegments")>>),
     PathSegments |->
        Sequence(<<R("PathSegment"), Star(Sequence(<<R("DoubleColon"), R("PathSegment")>>))>>),
     PathSegment |-> Choice(<<Str("super"), R("Identifier")>>),
     TypeAlias |->
        Sequence(<<Str("type"), R("Spacing"), R("TypeName"), R("Spacing"), R("EQUALS"),
                   R("Type")>>),
     TypeName |-> Choice(<<R("GenericType"), R("Identifier")>>),
     StructDef |->
        Sequence(<<Str("struct"), R("Spacing"), R("Identifier"), R("Spacing"), R("LBRACE"),
                   Query(R("FieldList")), R("RBRACE")>>),
     FieldList |->
        Sequence(<<R("FieldOrSpread"), Star(Sequence(<<R("COMMA"), R("FieldOrSpread")>>)),
                   Query(R("COMMA"))>>),
     FieldOrSpread |-> Choice(<<R("SpreadField"), R("Field")>>),
     Field |->
        Sequence(<<Star(R("Attribute")), R("Spacing"),
                   Choice(<<R("ComputedField"), R("NamedField")>>)>>),
     ComputedField |->
        Sequence(<<R("LBRACKET"), R("Type"), R("RBRACKET"), Query(R("QUESTION")), R("COLON"),
                   R("Type")>>),
     NamedField |-> Sequence(<<R("FieldName"), R("COLON"), R("Type")>>),
     SpreadField |-> Sequence(<<Star(R("Attribute")), R("Spacing"), R("SPREAD"), R("Type")>>),
     FieldName |-> Sequence(<<R("Identifier"), Query(R("QUESTION"))>>),
     EnumDef |->
        Sequence(<<Str("enum"), R("Spacing"), R("LPAREN"), R("Type"), R("RPAREN"),
                   R("Identifier"), R("Spacing"), R("LBRACE"), Query(R("EnumValueList")),
                   R("RBRACE")>>),
     EnumValueList |->
        Sequence(<<R("EnumValue"), Star(Sequence(<<R("COMMA"), R("EnumValue")>>)),
                   Query(R("COMMA"))>>),
     EnumValue |->
        Sequence(<<Star(R("Attribute")), R("Spacing"), R("Identifier"), R("Spacing"),
                   R("EQUALS"), R("String")>>),
     DispatchStmt |->
        Sequence(<<Str("dispatch"), R("Spacing"), R("DispatchPath"), R("Spacing"), Str("to"),
                   R("Spacing"), R("DispatchTarget")>>),
     DispatchPath |->
        Sequence(<<R("Identifier"), R("COLON"), R("ResourcePath"), R("LBRACKET"),
                   R("DispatchKeyList"), R("RBRACKET"),
                   Query(Sequence(<<R("LT"), R("GenericTypeParams"), R("RT")>>))>>),
     DispatchKeyList |->
        Sequence(<<R("DispatchKey"), Star(Sequence(<<R("COMMA"), R("DispatchKey")>>)),
                   Query(R("COMMA"))>>),
     DispatchKey |-> Choice(<<R("StaticIndexKey"), R("String"), R("Identifier")>>),
     DispatchTarget |->
        Choice(<<Sequence(<<Str("struct"), R("Spacing"), R("Identifier"), R("Spacing"),
                            R("LBRACE"), Query(R("FieldList")), R("RBRACE")>>),
                 R("Type")>>),
     SpreadStruct |->
        Sequence(<<R("SPREAD"), Str("struct"), R("Spacing"), R("Identifier"), R("Spacing"),
                   R("LBRACE"), Query(R("FieldList")), R("RBRACE")>>),
     Type |->
        Choice(<<R("UnionType"), R("AttributedType"), R("ArrayType"), R("StructType"),
                 R("ConstrainedType"), R("GenericType"), R("PrimitiveType"),
                 R("ReferenceType"), R("LiteralType")>>),
     AttributedType |->
        Sequence(<<Plus(R("Attribute")), R("Spacing"),
                   Choice(<<R("UnionType"), R("ArrayType"), R("ConstrainedType"),
                            R("StructType"), R("GenericType"), R("PrimitiveType"),
                            R("ReferenceType"), R("LiteralType")>>)>>),
     ConstrainedType |->
        Sequence(<<Choice(<<R("PrimitiveType"), R("ReferenceType"), R("LiteralType")>>),
                   R("ArrayConstraint")>>),
     UnionType |->
        Sequence(<<R("LPAREN"), R("Type"), Star(Sequence(<<R("PIPE"), R("Type")>>)),
                   Query(R("PIPE")), R("RPAREN")>>),
     ArrayType |->
        Choice(<<Sequence(<<R("LBRACKET"), R("Type"), R("RBRACKET"),
                            Query(R("ArrayConstraint"))>>),
                 Sequence(<<R("PrimitiveType"), R("LBRACKET"), R("RBRACKET")>>),
                 Sequence(<<R("ReferenceType"), R("LBRACKET"), R("RBRACKET")>>)>>),
     StructType |->
        Sequence(<<Str("struct"), R("Spacing"), Query(R("Identifier")), R("Spacing"),
                   R("LBRACE"), Query(R("FieldList")), R("RBRACE")>>),
     GenericType |->
        Sequence(<<R("Identifier"), R("LT"), R("GenericTypeParams"), R("RT")>>),
     GenericTypeParams |->
        Sequence(<<R("Type"), Star(Sequence(<<R("COMMA"), R("Type")>>))>>),
     PrimitiveType |->
        Sequence(<<Choice(<<Str("string"), Str("double"), Str("float"), Str("int"),
                            Str("boolean"), Str("any")>>),
                   R("Spacing")>>),
     ReferenceType |-> Choice(<<R("ComplexReference"), R("Path"), R("Identifier")>>),
     ComplexReference |->
        Sequence(<<R("Identifier"), R("COLON"), R("ResourcePath"),
                   Choice(<<Sequence(<<R("LBRACKET"), R("LBRACKET"), R("ComplexRefParam"),
                                       R("RBRACKET"), R("RBRACKET")>>),
                            Sequence(<<R("LBRACKET"), R("ComplexRefParam"), R("RBRACKET")>>)>>),
                   Query(Sequence(<<R("LT"), R("GenericTypeParams"), R("RT")>>))>>),
     ResourcePath |->
        Sequence(<<R("Identifier"), Star(Sequence(<<Str("/"), R("Identifier")>>))>>),
     ComplexRefParam |->
        Choice(<<R("DottedPath"), R("StaticIndexKey"), R("String"), R("Identifier")>>),
     DottedPath |->
        Sequence(<<Choice(<<R("StaticIndexKey"), R("Identifier")>>),
                   Plus(Sequence(<<Str("."), R("Identifier")>>))>>),
     StaticIndexKey |->
        Sequence(<<Choice(<<Str("%fallback"), Str("%key"), Str("%parent"), Str("%none"),
                            Str("%unknown")>>),
                   R("Spacing")>>),
     LiteralType |-> Choice(<<R("String"), R("Number"), R("Boolean")>>),
     ArrayConstraint |-> Sequence(<<R("AT"), Choice(<<R("Range"), R("Number")>>)>>),
     Range |->
        Choice(<<Sequence(<<R("Number"), R("RangeOperator"), R("Number")>>),
                 Sequence(<<R("Number"), R("RangeOperator")>>),
                 Sequence(<<R("RangeOperator"), R("Number")>>)>>),
     RangeOperator |-> Sequence(<<Query(R("LT")), R("DOTDOT"), Query(R("LT"))>>),
     Attribute |->
        Sequence(<<Str("#"), R("LBRACKET"), R("AttributeList"), R("RBRACKET")>>),
     AttributeList |->
        Sequence(<<R("AttributeItem"), Star(Sequence(<<R("COMMA"), R("AttributeItem")>>))>>),
     AttributeItem |->
        Choice(<<R("AttributePair"), R("AttributeCall"), R("AttributeCallWithEquals"),
                 R("Identifier")>>),
     AttributeCallWithEquals |->
        Sequence(<<R("Identifier"), R("EQUALS"), R("LPAREN"), Query(R("AttributeParamList")),
                   R("RPAREN")>>),
     AttributeCall |->
        Sequence(<<R("Identifier"), R("LPAREN"), Query(R("AttributeParamList")),
                   R("RPAREN")>>),
     AttributeParamList |->
        Sequence(<<R("AttributeParam"), Star(Sequence(<<R("COMMA"), R("AttributeParam")>>))>>),
     AttributeParam |-> Choice(<<R("AttributePair"), R("AttributeValue")>>),
     AttributePair |-> Sequence(<<R("Identifier"), R("EQUALS"), R("AttributeValue")>>),
     AttributeValue |->
        Choice(<<R("ArrayLiteral"), R("ComplexReference"), R("String"), R("Number"),
                 R("Boolean"), R("Identifier")>>),
     ArrayLiteral |->
        Sequence(<<R("LBRACKET"),
                   Query(Sequence(<<R("AttributeValue"),
                                    Star(Sequence(<<R("COMMA"), R("AttributeValue")>>))>>)),
                   R("RBRACKET")>>),
     Comment |->
        Sequence(<<Str("//"), Star(Sequence(<<Not(R("EOL")), Dot>>)),
                   Choice(<<R("EOL"), Not(Dot)>>)>>),
     DocComment |->
        Sequence(<<Str("///"), Star(Sequence(<<Not(R("EOL")), Dot>>)),
                   Choice(<<R("EOL"), Not(Dot)>>)>>),
     Identifier |->
        Sequence(<<Class(Lower \cup Upper \cup {"_"}),
                   Star(Class(Lower \cup Upper \cup Decimal \cup {"_"})), R("Spacing")>>),
     String |->
        Sequence(<<Str("\""), Star(Sequence(<<Not(Str("\"")), Dot>>)), Str("\""),
                   R("Spacing")>>),
     Number |->
        Sequence(<<Query(Str("-")), Plus(Class(Decimal)),
                   Query(Sequence(<<Str("."), Plus(Class(Decimal))>>)), R("Spacing")>>),
     Boolean |-> Sequence(<<Choice(<<Str("true"), Str("false")>>), R("Spacing")>>),
     LBRACE |-> Sequence(<<Str("{"), R("Spacing")>>),
     RBRACE |-> Sequence(<<Str("}"), R("Spacing")>>),
     LBRACKET |-> Sequence(<<Str("["), R("Spacing")>>),
     RBRACKET |-> Sequence(<<Str("]"), R("Spacing")>>),
     LPAREN |-> Sequence(<<Str("("), R("Spacing")>>),
     RPAREN |-> Sequence(<<Str(")"), R("Spacing")>>),
     COMMA |-> Sequence(<<Str(","), R("Spacing")>>),
     COLON |-> Sequence(<<Str(":"), R("Spacing")>>),
     SEMICOLON |-> Sequence(<<Str(";"), R("Spacing")>>),
     EQUALS |-> Sequence(<<Str("="), R("Spacing")>>),
     PIPE |-> Sequence(<<Str("|"), R("Spacing")>>),
     DOT |-> Sequence(<<Str("."), R("Spacing")>>),
     SPREAD |-> Sequence(<<Str("..."), R("Spacing")>>),
     AT |-> Sequence(<<Str("@"), R("Spacing")>>),
     LT |-> Sequence(<<Str("<"), R("Spacing")>>),
     RT |-> Sequence(<<Str(">"), R("Spacing")>>),
     DOTDOT |-> Sequence(<<Str(".."), R("Spacing")>>),
     QUESTION |-> Sequence(<<Str("?"), R("Spacing")>>),
     DoubleColon |-> Sequence(<<Str("::"), R("Spacing")>>),
     SingleColon |-> Sequence(<<Str(":"), R("Spacing")>>),
     Spacing |->
        Star(Choice(<<Class({" ", "\t", "\r", "\n"}), R("Comment"), R("DocComment")>>)),
     EOL |-> Choice(<<Str("\r\n"), Str("\n"), Str("\r")>>)]

\* A parsing expression applied to the buffer at position: the position
\* after the match, or 0 when the expression fails.  Characters are numbered
\* from 1; an ordered choice takes its first matching alternative and a
\* repetition takes all it can, neither being undone by a later failure.
RECURSIVE Match(_, _, _)
RECURSIVE MatchSequence(_, _, _, _)
RECURSIVE MatchChoice(_, _, _, _)
RECURSIVE MatchStar(_, _, _)

MatchSequence(items, i, text, position) ==
    IF i > Len(items) THEN position
    ELSE LET next == Match(items[i], text, position)
         IN IF next = 0 THEN 0 ELSE MatchSequence(items, i + 1, text, next)

MatchChoice(items, i, text, position) ==
    IF i > Len(items) THEN 0
    ELSE LET next == Match(items[i], text, position)
         IN IF next # 0 THEN next ELSE MatchChoice(items, i + 1, text, position)

MatchStar(item, text, position) ==
    LET next == Match(item, text, position)
    IN IF next = 0 \/ next = position THEN position ELSE MatchStar(item, text, next)

Match(expr, text, position) ==
    CASE expr.op = "str" ->
            IF /\ position + Len(expr.str) - 1 <= Len(text)
               /\ SubSeq(text, position, position + Len(expr.str) - 1) = expr.str
            THEN position + Len(expr.str) ELSE 0
      [] expr.op = "class" ->
            IF position <= Len(text) /\ SubSeq(text, position, position) \in expr.chars
            THEN position + 1 ELSE 0
      [] expr.op = "dot" -> IF position <= Len(text) THEN position + 1 ELSE 0
      [] expr.op = "rule" -> Match(Grammar[expr.rule], text, position)
      [] expr.op = "sequence" -> MatchSequence(expr.items, 1, text, position)
      [] expr.op = "choice" -> MatchChoice(expr.items, 1, text, position)
      [] expr.op = "star" -> MatchStar(expr.item, text, position)
      [] expr.op = "plus" ->
            LET next == Match(expr.item, text, position)
            IN IF next = 0 THEN 0 ELSE MatchStar(expr.item, text, next)
      [] expr.op = "query" ->
            LET next == Match(expr.item, text, position)
            IN IF next = 0 THEN position ELSE next
      [] expr.op = "not" ->
            IF Match(expr.item, text, position) = 0 THEN position ELSE 0

\* The alternative a rule that is an ordered choice of rules takes at the
\* start of the buffer, "" when none matches.
RECURSIVE TakenAlternative(_, _, _)
TakenAlternative(items, i, text) ==
    IF i > Len(items) THEN ""
    ELSE IF Match(items[i], text, 1) # 0 THEN items[i].rule
    ELSE TakenAlternative(items, i + 1, text)

\* MCDocParser.Parse(rule) on the buffer: the rule matched up to end (0 when
\* it failed), through alternative taken.
Parse(rule, text) ==
    [rule |-> rule, end |-> Match(R(rule), text, 1),
     taken |-> IF Grammar[rule].op = "choice" THEN TakenAlternative(Grammar[rule].items, 1, text)
               ELSE ""]

\* Words offered to the Type rule: the primitive keywords, identifiers that
\* begin with one, and identifiers that do not.
TypeWords ==
    {"string", "double", "float", "int", "boolean", "any",
     "stringy", "doubled", "floaty", "integer", "booleans", "anything",
     "Foo", "i", "in", "strin", "t", "super", "superb", "structure", "_int"}

\* Modules holding one comma-separated list of each kind, of the given
\* number of items, closed with a trailing comma or without one.
ListKinds ==
    {"FieldList", "EnumValueList", "DispatchKeyList", "AttributeList",
     "AttributeParamList", "ArrayLiteral", "GenericTypeParams"}

ListItem(kind, i) ==
    LET name == SubSeq("abcdefgh", i, i)
    IN CASE kind = "FieldList" -> name \o ": int"
         [] kind = "EnumValueList" -> name \o " = \"" \o name \o "\""
         [] OTHER -> name

RECURSIVE ListItems(_, _, _)
ListItems(kind, i, n) ==
    IF i > n THEN ""
    ELSE IF i = n THEN ListItem(kind, i)
    ELSE ListItem(kind, i) \o ", " \o ListItems(kind, i + 1, n)

ModuleWithList(kind, n, trailingComma) ==
    LET list == ListItems(kind, 1, n) \o (IF trailingComma THEN "," ELSE "")
    IN CASE kind = "FieldList" -> "struct S { " \o list \o " }"
         [] kind = "EnumValueList" -> "enum(string) E { " \o list \o " }"
         [] kind = "DispatchKeyList" -> "dispatch minecraft:r[" \o list \o "] to int"
         [] kind = "AttributeList" -> "#[" \o list \o "] struct S {}"
         [] kind = "AttributeParamList" -> "#[f(" \o list \o ")] struct S {}"
         [] kind = "ArrayLiteral" -> "#[f=[" \o list \o "]] struct S {}"
         [] kind = "GenericTypeParams" -> "type T = U<" \o list \o ">"

ModuleTexts ==
    {ModuleWithList(kind, n, trailingComma) :
        kind \in ListKinds, n \in 1..MaxItems, trailingComma \in BOOLEAN}

InitGrammar ==
    /\ ParseIdle /\ CompareIdle /\ GateIdle /\ ValidateIdle /\ DocumentIdle /\ RegexIdle
    /\ buffer = <<>>
    /\ actions = <<>>
    /\ pc = 0
    /\ sb = NewStatementBuilder
    /\ tb = NewTreeBuilder
    /\ opened = <<>>
    /\ input \in TypeWords \cup ModuleTexts
    /\ accepted = <<>>

grammarFrame == <<versionVars, validateVars, documentVars, regexVars, buffer, actions, pc,
                  sb, tb, opened, input>>

\* parser.Parse() on the buffer: the rule Start.
ParseModule ==
    /\ accepted = <<>>
    /\ accepted' = <<Parse("Start", input)>>
    /\ UNCHANGED grammarFrame

\* parser.Parse(ruleType) on the buffer.
ParseType ==
    /\ accepted = <<>>
    /\ accepted' = <<Parse("Type", input)>>
    /\ UNCHANGED grammarFrame

NextGrammar == ParseModule \/ ParseType

SpecGrammar == InitGrammar /\ [][NextGrammar]_vars

----------------------------------------------------------------------------
(* What the specification says of versions, stated without the code *)

\* MAJOR.MINOR or MAJOR.MINOR.PATCH, every component a non-empty run of digits.
IsVersionString(str) ==
    LET parts == Split(str)
    IN /\ Len(parts) \in {2, 3}
       /\ \A i \in 1..Len(parts) :
             /\ parts[i] # <<>>
             /\ \A j \in 1..Len(parts[i]) : parts[i][j] \in Digits

\* The version a version string denotes; PATCH defaults to zero.
VersionOfString(str) ==
    LET parts == Split(str)
    IN Version(DecVal(parts[1]), DecVal(parts[2]),
               IF Len(parts) = 3 THEN DecVal(parts[3]) ELSE 0)

NonNegative(x) == x.Major >= 0 /\ x.Minor >= 0 /\ x.Patch >= 0

\* a <= b in the lexicographic order on (major, minor, patch).
LexLE(a, b) ==
    \/ a.Major < b.Major
    \/ a.Major = b.Major /\ a.Minor < b.Minor
    \/ a.Major = b.Major /\ a.Minor = b.Minor /\ a.Patch <= b.Patch

LexLT(a, b) == LexLE(a, b) /\ a # b

Sign(x) == IF x < 0 THEN -1 ELSE IF x > 0 THEN 1 ELSE 0

\* A gate endpoint as the specification has it: unset, or a version.
IsGateEndpoint(str) == str = <<>> \/ (IsVersionString(str) /\ ~parseVersion(str).err)

IntervalTest(gate, x) ==
    /\ gate.Since = <<>> \/ LexLE(VersionOfString(gate.Since), x)
    /\ gate.Until = <<>> \/ LexLE(x, VersionOfString(gate.Until))

----------------------------------------------------------------------------
(* Claims *)

\* C1: version gating is an inclusive interval test.  For every gate whose
\* endpoints are unset or versions and every target version (a triple of
\* non-negative integers), AppliesForVersion and
\* isFieldAvailableWithConstraints return true iff (since is unset or
\* since <= target) and (until is unset or target <= until).
C1_GateIsInclusiveInterval ==
    (IsGateEndpoint(bv.Since) /\ IsGateEndpoint(bv.Until) /\ NonNegative(target)) =>
        /\ applies # <<>> => (applies[1] <=> IntervalTest(bv, target))
        /\ available # <<>> => (available[1] <=> IntervalTest(bv, target))

\* Both calls have answered true for a target sitting on both endpoints.
C1_Witness ==
    /\ bv = [Since |-> <<"1", ".", "1">>, Until |-> <<"1", ".", "1">>]
    /\ target = Version(1, 1, 0)
    /\ applies = <<TRUE>>
    /\ available = <<TRUE>>

\* C2: on versions (triples of non-negative integers) Version.Compare is the
\* lexicographic total order: the two directions have opposite signs, the
\* result is 0 iff all three components are equal, its sign is the sign of
\* the lexicographic comparison, it is transitive, and 1.20 < 1.20.1.
C2_CompareIsLexicographicTotalOrder ==
    (cmp # <<>> /\ NonNegative(ver) /\ NonNegative(other)) =>
        /\ Sign(cmp[1].fwd) = -Sign(cmp[1].back)
        /\ cmp[1].fwd = 0 <=> ver = other
        /\ cmp[1].fwd < 0 <=> LexLT(ver, other)
        /\ \A third \in Versions :
              (NonNegative(third) /\ cmp[1].fwd <= 0 /\ Compare(other, third) <= 0)
                  => Compare(ver, third) <= 0
        /\ (ver = Version(1, 20, 0) /\ other = Version(1, 20, 1)) => cmp[1].fwd < 0

\* 1.20.0 has been compared with 1.20.1, in both directions.
C2_Witness ==
    /\ ver = Version(1, 20, 0)
    /\ other = Version(1, 20, 1)
    /\ cmp # <<>>
    /\ cmp[1].fwd < 0
    /\ cmp[1].back > 0

\* C3: parseVersion succeeds exactly on MAJOR.MINOR and MAJOR.MINOR.PATCH
\* with every component a non-negative decimal integer, fails on every other
\* string, and reads a two-component string as the same string with ".0"
\* appended.
C3_ParseVersionExactlyVersionStrings ==
    parsed # <<>> =>
        /\ ~parsed[1].err <=> IsVersionString(s)
        /\ (~parsed[1].err /\ Len(Split(s)) = 2)
              => parseVersion(s \o <<".", "0">>) = parsed[1]

----------------------------------------------------------------------------
(* Vocabulary for the claims about Validate *)

HasReturned == outcome = "returned"

\* ctx as it was when Validate was called: the path starts empty.
ContextAtCall == [context EXCEPT !.Path = <<>>]

TargetVersion == context.Version

\* validatorTree, validated alone, returns no error for jsonValue.
Accepts(validatorTree, jsonValue) ==
    \E order \in KeyOrders(jsonValue) :
        Validate(validatorTree, jsonValue, ContextAtCall, order, MaxHops).err = Nil

IsObject(jsonValue) == jsonValue.t = "map[string]interface {}"

\* A call of an applicable StructValidator on a JSON object has returned.
StructCallReturned ==
    /\ HasReturned
    /\ mainValidator.kind = "Struct"
    /\ AppliesForVersion(mainValidator, TargetVersion)
    /\ IsObject(jsonData)

ReportsMissing(name) ==
    /\ validationErr # Nil
    /\ validationErr[1].Message = <<"required field", name, "is missing">>

ReportsUnexpected ==
    /\ validationErr # Nil
    /\ validationErr[1].Message[1] = "unexpected field"

\* Field i of the struct is required, applicable and absent from the object.
MissingRequired(i) ==
    LET field == mainValidator.Fields[i]
    IN /\ AppliesForVersion(field, TargetVersion)
       /\ ~field.Optional
       /\ field.Name \notin DOMAIN jsonData.obj

\* Field j of the struct gives Validate no reason to return.
FieldPasses(j) ==
    LET field == mainValidator.Fields[j]
    IN \/ ~AppliesForVersion(field, TargetVersion)
       \/ field.Name \notin DOMAIN jsonData.obj /\ field.Optional
       \/ /\ field.Name \in DOMAIN jsonData.obj
          /\ Accepts(field.Validator, jsonData.obj[field.Name])

FieldIndexes == 1..Len(mainValidator.Fields)

----------------------------------------------------------------------------
(* Claims about the validators *)

C5_StrayKeyReportedUnexpected ==
    StructCallReturned =>
        ((\E key \in DOMAIN jsonData.obj :
             /\ \A i \in FieldIndexes :
                   mainValidator.Fields[i].Name = key
                       => ~AppliesForVersion(mainValidator.Fields[i], TargetVersion)
             /\ \A j \in 1..Len(mainValidator.SpreadFields) :
                   ~Accepts(mainValidator.SpreadFields[j], jsonData.obj[key]))
         => ReportsUnexpected)

\* A call of an applicable PrimitiveValidator of one of the given types has
\* returned.
PrimitiveCallReturned(types) ==
    /\ HasReturned
    /\ mainValidator.kind = "Primitive"
    /\ mainValidator.Type \in types
    /\ AppliesForVersion(mainValidator, TargetVersion)

\* validateField has been called for a field of one of the given types.
FieldCallReturned(types) ==
    /\ issues # <<>>
    /\ mainValidator.kind = "Primitive"
    /\ mainValidator.Type \in types

IsNumber(jsonValue) == jsonValue.t \in {"float64", "int", "int64"}

\* A JSON integer, or a number with no fractional part.
IsIntegral(jsonValue) ==
    \/ jsonValue.t \in {"int", "int64"}
    \/ jsonValue.t = "float64" /\ jsonValue.halves % 2 = 0

\* A value as encoding/json decodes it: its numbers are float64.
IsDecodedJSON(jsonValue) == jsonValue.t \notin {"int", "int64"}

C7_FloatAcceptsExactlyNumbers ==
    PrimitiveCallReturned({"float", "double"})
        => (validationErr = Nil <=> IsNumber(jsonData))

\* The number a numeric value stands for, in halves.
NumberInHalves(jsonValue) ==
    IF jsonValue.t = "float64" THEN jsonValue.halves ELSE 2 * jsonValue.int

InRange(rv, x) ==
    /\ \/ rv.Min = Nil
       \/ ~rv.MinExclusive /\ x >= rv.Min[1]
       \/ rv.MinExclusive /\ x > rv.Min[1]
    /\ \/ rv.Max = Nil
       \/ ~rv.MaxExclusive /\ x <= rv.Max[1]
       \/ rv.MaxExclusive /\ x < rv.Max[1]

\* C8: an applicable RangeValidator accepts a number x iff (Min unset, or
\* x >= Min when MinExclusive is false, or x > Min when it is true) and (Max
\* unset, or x <= Max when MaxExclusive is false, or x < Max when it is true).
C8_RangeAcceptsExactlyInRange ==
    (/\ HasReturned
     /\ mainValidator.kind = "Range"
     /\ AppliesForVersion(mainValidator, TargetVersion)
     /\ IsNumber(jsonData))
        => (validationErr = Nil <=> InRange(mainValidator, NumberInHalves(jsonData)))

\* The range 1.0 <.. 2.0 has rejected 1.0, its excluded lower bound.
C8_Witness ==
    /\ HasReturned
    /\ mainValidator = Range(NoGate, <<2>>, TRUE, <<4>>, FALSE)
    /\ jsonData = GoFloat64(2)
    /\ validationErr # Nil

\* C9: if a value validates without error against an alternative alone,
\* UnionValidator.Validate on a union containing that alternative, in any
\* position, returns no error for the value.
C9_UnionAcceptsWhatAnAlternativeAccepts ==
    (HasReturned /\ mainValidator.kind = "Union") =>
        ((\E i \in 1..Len(mainValidator.Alternatives) :
             Accepts(mainValidator.Alternatives[i], jsonData))
         => validationErr = Nil)

\* A union whose first alternative rejects the value and whose second
\* accepts it has returned no error.
C9_Witness ==
    /\ HasReturned
    /\ mainValidator = Union(NoGate, <<StructA, PString>>)
    /\ jsonData = GoString("s")
    /\ ~Accepts(StructA, jsonData)
    /\ validationErr = Nil

\* C10: an applicable union accepts a value only if some alternative whose
\* gate applies accepts it, or if no alternative's gate applies: a gated-out
\* alternative never makes the union accept.
C10_GatedOutAlternativeNeverAccepts ==
    (/\ HasReturned
     /\ mainValidator.kind = "Union"
     /\ AppliesForVersion(mainValidator, TargetVersion)
     /\ validationErr = Nil)
        => \/ \E i \in 1..Len(mainValidator.Alternatives) :
                 /\ AppliesForVersion(mainValidator.Alternatives[i], TargetVersion)
                 /\ Accepts(mainValidator.Alternatives[i], jsonData)
           \/ \A i \in 1..Len(mainValidator.Alternatives) :
                 ~AppliesForVersion(mainValidator.Alternatives[i], TargetVersion)

\* C11: a reference to a type name with no definition validates anything:
\* ReferenceValidator.Validate returns no error for any JSON value when
\* TypeName is absent from ctx.Definitions.
C11_UndefinedReferenceAcceptsAnything ==
    (/\ HasReturned
     /\ mainValidator.kind = "Reference"
     /\ mainValidator.TypeName \notin DOMAIN context.Definitions)
        => validationErr = Nil

\* Where in jsonValue the value lies that validatorTree rejects first: the
\* field names and array indexes leading to it from jsonValue, found by
\* descending through jsonValue alone.
RECURSIVE ErrorPosition(_, _)
ErrorPosition(validatorTree, jsonValue) ==
    IF ~AppliesForVersion(validatorTree, TargetVersion) THEN <<>>
    ELSE CASE validatorTree.kind = "Array" /\ jsonValue.t = "[]interface {}" ->
                LET lengthOk ==
                        \/ validatorTree.LengthConstraint = Nil
                        \/ Accepts(validatorTree.LengthConstraint[1],
                                   GoFloat64(2 * Len(jsonValue.elems)))
                    failing == {i \in 1..Len(jsonValue.elems) :
                                   ~Accepts(validatorTree.ElementValidator,
                                            jsonValue.elems[i])}
                IN IF ~lengthOk \/ failing = {} THEN <<>>
                   ELSE LET i == CHOOSE k \in failing : \A l \in failing : k <= l
                        IN <<IndexString(i - 1)>>
                               \o ErrorPosition(validatorTree.ElementValidator,
                                                jsonValue.elems[i])
           [] validatorTree.kind = "Struct" /\ IsObject(jsonValue) ->
                LET applicable == {i \in 1..Len(validatorTree.Fields) :
                                      AppliesForVersion(validatorTree.Fields[i],
                                                        TargetVersion)}
                    present(i) == validatorTree.Fields[i].Name \in DOMAIN jsonValue.obj
                    failing == {i \in applicable :
                                   \/ ~present(i) /\ ~validatorTree.Fields[i].Optional
                                   \/ /\ present(i)
                                      /\ ~Accepts(validatorTree.Fields[i].Validator,
                                                  jsonValue.obj[validatorTree.Fields[i].Name])}
                IN IF failing = {} THEN <<>>
                   ELSE LET i == CHOOSE k \in failing : \A l \in failing : k <= l
                            field == validatorTree.Fields[i]
                        IN IF ~present(i) THEN <<>>
                           ELSE <<field.Name>>
                                    \o ErrorPosition(field.Validator,
                                                     jsonValue.obj[field.Name])
           [] validatorTree.kind = "Attributed" ->
                ErrorPosition(validatorTree.InnerValidator, jsonValue)
           [] validatorTree.kind = "Constrained" ->
                IF Accepts(validatorTree.InnerValidator, jsonValue)
                THEN ErrorPosition(validatorTree.Constraint, jsonValue)
                ELSE ErrorPosition(validatorTree.InnerValidator, jsonValue)
           [] validatorTree.kind = "Reference"
                  /\ validatorTree.TypeName \in DOMAIN context.Definitions ->
                ErrorPosition(context.Definitions[validatorTree.TypeName], jsonValue)
           [] OTHER -> <<>>

\* C12: whenever Validate returns a ValidationError for a nested value, the
\* error's Path is exactly the sequence of struct field names and array
\* indexes "[i]" leading from the root JSON value to the value the error is
\* about, for every validator tree, unions whose struct or array alternative
\* failed before another was tried included.
C12_ErrorPathLeadsToRejectedValue ==
    (/\ HasReturned
     /\ validationErr # Nil
     /\ ErrorPosition(mainValidator, jsonData) # <<>>)
        => validationErr[1].Path = ErrorPosition(mainValidator, jsonData)

\* C13: validation is deterministic: a second run of Validate with the same
\* validator tree, JSON value and target version, whichever order its map
\* iterations take, produces the outcome of the first: the same error with
\* the same path and message, or success both times.
C13_ValidateIsDeterministic ==
    HasReturned =>
        \A order \in KeyOrders(jsonData) :
            Validate(mainValidator, jsonData, ContextAtCall, order, MaxHops).err
                = validationErr

\* C14: Validate terminates for every finite JSON value and every
\* definitions map, maps in which type references form a cycle included: the
\* call never exhausts the stack.
C14_ValidateTerminates == outcome # "crashed"

----------------------------------------------------------------------------
(* Claims about determineSchemaPath *)

\* The segments after the first "data" segment of a cleaned path, the file
\* name left out.
BetweenDataAndFile(path) ==
    LET parts == Clean(path)
    IN SubSeq(parts, DataIndex(parts) + 1, Len(parts) - 1)

HasDataAndFile(path) ==
    LET parts == Clean(path)
    IN DataIndex(parts) # 0 /\ DataIndex(parts) < Len(parts)

IsNamespace(segment) == segment \notin KnownTypes

\* The path, cleaned, ends with the name of a JSON file.
NamesJSONFile(path) == Clean(path)[Len(Clean(path))] = "test.json"

SchemaPathOf(typeSegments) ==
    <<SchemaDir, "java", "data">>
        \o SubSeq(typeSegments, 1, Len(typeSegments) - 1)
        \o <<typeSegments[Len(typeSegments)] \o ".mcdoc">>

----------------------------------------------------------------------------
(* Claims about ValidateJSON *)

----------------------------------------------------------------------------
(* Further claims about the validators *)

\* C16: a range constraint on a string type constrains the string's length:
\* an applicable ConstrainedValidator with a string inner validator and a
\* RangeValidator constraint accepts a string s iff len(s) lies in the
\* range, and does not reject a string merely because it is not a number.
C16_StringRangeConstrainsLength ==
    (/\ HasReturned
     /\ mainValidator.kind = "Constrained"
     /\ AppliesForVersion(mainValidator, TargetVersion)
     /\ mainValidator.InnerValidator = PString
     /\ mainValidator.Constraint.kind = "Range"
     /\ jsonData.t = "string")
        => (validationErr = Nil
               <=> InRange(mainValidator.Constraint, 2 * Len(jsonData.str)))

\* A call of an applicable ArrayValidator has returned.
ArrayCallReturned ==
    /\ HasReturned
    /\ mainValidator.kind = "Array"
    /\ AppliesForVersion(mainValidator, TargetVersion)

IsArray(jsonValue) == jsonValue.t = "[]interface {}"

LengthSatisfied ==
    \/ mainValidator.LengthConstraint = Nil
    \/ Accepts(mainValidator.LengthConstraint[1], GoFloat64(2 * Len(jsonData.elems)))

\* The indexes (from 1) of the elements the element validator rejects.
RejectedElements ==
    {i \in 1..Len(jsonData.elems) :
        ~Accepts(mainValidator.ElementValidator, jsonData.elems[i])}

\* C18: an applicable ArrayValidator accepts a value iff it is a JSON array
\* whose length satisfies the length constraint, when there is one, and
\* whose every element the element validator accepts; when some element is
\* rejected, the returned error is the element validator's error for the
\* smallest failing index i, under the path "[i]": the path starts with
\* "[i]", and ends with it when the element validator rejects the element
\* itself.
C18_ArrayAcceptsIffElementsAccepted ==
    ArrayCallReturned =>
        /\ validationErr = Nil
              <=> (IsArray(jsonData) /\ LengthSatisfied /\ RejectedElements = {})
        /\ (IsArray(jsonData) /\ LengthSatisfied /\ RejectedElements # {}) =>
              LET i == CHOOSE k \in RejectedElements : \A l \in RejectedElements : k <= l
                  element == jsonData.elems[i]
                  index == IndexString(i - 1)
              IN /\ \E order \in KeyOrders(jsonData) :
                        validationErr
                            = Validate(mainValidator.ElementValidator, element,
                                       Push(ContextAtCall, index), order, MaxHops).err
                 /\ validationErr[1].Path[1] = index
                 /\ ErrorPosition(mainValidator.ElementValidator, element) = <<>>
                        => validationErr[1].Path[Len(validationErr[1].Path)] = index

----------------------------------------------------------------------------
(* Claims about the regex-based validator *)

StructValidated == stage = "validated"

\* The issues validateStruct returned that name the field or key.
IssuesAbout(key) ==
    {issues[1][k] : k \in {n \in 1..Len(issues[1]) : issues[1][n][2] = key}}

\* C19: validateStruct reports a key of the document as an unknown field
\* when the only schema field of that name is not available at the target
\* version, and reports nothing for that key when the field is available.
C19_UnavailableFieldKeyReportedUnknown ==
    StructValidated =>
        \A key \in DOMAIN jsonData.obj \cap DOMAIN mainStruct :
            IF mainStruct[key].IsAvailable
            THEN IssuesAbout(key) = {}
            ELSE <<"Unknown field", key>> \in IssuesAbout(key)

SpreadParsed == stage \in {"spread parsed", "validated"}

\* The gate written for the declaration on line i: the attributes on the
\* line itself, and otherwise those on an attribute line directly above it.
WrittenGate(schemaLines, i) ==
    LET above == schemaLines[i - 1]
        Written(onLine, onLineAbove) ==
            IF onLine # <<>> THEN onLine
            ELSE IF above.kind = "attr" THEN onLineAbove ELSE <<>>
    IN Gate(Written(schemaLines[i].since, above.since),
            Written(schemaLines[i].until, above.until))

\* The lines declaring the fields of the spread struct, and for a field the
\* last line declaring it.
InheritedLines == {i \in SpreadIndex(lines)..Len(lines) : lines[i].kind = "field"}
DeclaresLast(i) == \A k \in InheritedLines : lines[k].Name = lines[i].Name => k <= i

\* C20: a field inherited through a version-gated spread carries the
\* conjunction of both gates: after parseSpreadStruct the field is available
\* at the target version iff the field's own gate applies to that version and
\* the spread's gate applies to it.
C20_InheritedFieldCarriesBothGates ==
    SpreadParsed =>
        \A i \in InheritedLines :
            DeclaresLast(i) =>
                (mainStruct[lines[i].Name].IsAvailable
                    <=> /\ IntervalTest(WrittenGate(lines, i), targetVer)
                        /\ IntervalTest(WrittenGate(lines, SpreadIndex(lines)), targetVer))

\* What extractVersionFromContext returns for line i is the gate written for
\* the declaration on that line.
ReadsWrittenGate(i) ==
    LET read == extractVersionFromContext(lines, i)
        written == WrittenGate(lines, i)
    IN /\ read.VersionSince = extractVersion(written.Since)
       /\ read.VersionUntil = extractVersion(written.Until)

\* C21: a since/until attribute gates only the field that immediately
\* follows it: the gate extractVersionFromContext assigns to a field comes
\* only from the attributes on the field's own line or on an attribute-only
\* line directly above it, never from the attributes of the preceding
\* declaration.
C21_AttributeGatesOnlyTheNextField ==
    SpreadParsed => \A i \in InheritedLines : ReadsWrittenGate(i)

----------------------------------------------------------------------------
(* Claims about the path stack of the validators *)

\* C26: when Validate returns nil, ctx.Path has exactly the contents it had
\* when Validate was called, for every validator kind and every value, also
\* when a union succeeds on a later alternative after an earlier struct or
\* array alternative failed.
C26_SuccessLeavesPathUnchanged ==
    (HasReturned /\ validationErr = Nil) => context.Path = ContextAtCall.Path

----------------------------------------------------------------------------
(* Further claims about version gates *)

\* The endpoint is set to a string parseVersion returns an error for.
Unparseable(str) == str # <<>> /\ parseVersion(str).err

\* The gate with its unparseable endpoints unset.
ParseableEndpoints(gate) ==
    Gate(IF Unparseable(gate.Since) THEN <<>> ELSE gate.Since,
         IF Unparseable(gate.Until) THEN <<>> ELSE gate.Until)

\* C29: a Since or Until string that is not a parseable version never causes
\* a node to be gated out: for every target version AppliesForVersion answers
\* as it does for the gate with that endpoint unset, and answers true when
\* neither endpoint is a parseable version.
C29_UnparseableEndpointIsUnset ==
    (applies # <<>> /\ (Unparseable(bv.Since) \/ Unparseable(bv.Until))) =>
        /\ applies[1] = AppliesForVersion(ParseableEndpoints(bv), target)
        /\ ParseableEndpoints(bv) = NoGate => applies[1]
        /\ (IsGateEndpoint(ParseableEndpoints(bv).Since)
                /\ IsGateEndpoint(ParseableEndpoints(bv).Until) /\ NonNegative(target))
              => (applies[1] <=> IntervalTest(ParseableEndpoints(bv), target))

\* AppliesForVersion has answered true for a gate whose since does not parse
\* and whose until lies after the target.
C29_Witness ==
    /\ bv = [Since |-> <<"1", ".", "x">>, Until |-> <<"1", ".", "1">>]
    /\ target = Version(1, 0, 0)
    /\ applies = <<TRUE>>

----------------------------------------------------------------------------
(* Claims about the statement builder *)

\* Execute has run every action the parse recorded.
ModuleBuilt == actions # <<>> /\ pc = Len(actions)

\* Execute has just run the last action of a top-level statement.
StatementBuilt == pc > 0 /\ actions[pc].last

IsWrittenUse(statement) == statement.stmt = "use"
IsWrittenStruct(statement) == statement.stmt = "struct"
IsUseStatement(statement) == statement.kind = "UseStatement"
IsStructStatement(statement) == statement.kind = "StructStatement"

\* The path a use statement writes: its segments in order, super segments
\* flagged, absolute iff it starts with "::".
WrittenPath(statement) ==
    Path([i \in 1..Len(statement.segments) |->
            PathSegment(statement.segments[i], statement.segments[i] = "super")],
         statement.absolute)

\* C22: for every use statement of a module the recorded UseStatement has
\* exactly the path segments written in it, in order, with IsSuper set
\* exactly on the super segments and IsAbsolute set iff the path starts with
\* "::", whatever statements precede it in the module.
C22_UsePathRecordedVerbatim ==
    ModuleBuilt =>
        LET written == SelectSeq(buffer, IsWrittenUse)
            recorded == SelectSeq(sb.Statements, IsUseStatement)
        IN /\ Len(recorded) = Len(written)
           /\ \A i \in 1..Len(written) : recorded[i].Path = WrittenPath(written[i])

\* C23: parsing a module records one StructStatement per top-level struct
\* definition, in source order, named by the identifier written after the
\* struct keyword, and registers that name in Definitions, wherever the
\* struct stands in the module.
C23_StructRecordedUnderItsName ==
    ModuleBuilt =>
        LET written == SelectSeq(buffer, IsWrittenStruct)
            recorded == SelectSeq(sb.Statements, IsStructStatement)
        IN /\ Len(recorded) = Len(written)
           /\ \A i \in 1..Len(written) :
                 /\ recorded[i].Name = Identifier(written[i].name)
                 /\ written[i].name \in DOMAIN sb.Definitions

\* The fields written in the module, in source order.
RECURSIVE WrittenFields(_)
WrittenFields(module) ==
    IF module = <<>> THEN <<>>
    ELSE Head(module).fields \o WrittenFields(Tail(module))

IsFieldNode(n) == tb.nodes[n].Type = "field"

\* The field nodes of the builder's tree, in the order they were pushed.
FieldNodes == SelectSeq([n \in 1..Len(tb.nodes) |-> n], IsFieldNode)

\* Node n has a child carrying the optional marker.
MarkedOptional(n) ==
    \E k \in 1..Len(tb.nodes[n].Children) :
        tb.nodes[tb.nodes[n].Children[k]].Type = "optional"

\* C24: a field is marked optional in the builder's tree iff its name is
\* followed by "?"; a field written without "?" never receives the marker.
C24_OptionalMarkerIffQuestionMark ==
    ModuleBuilt =>
        /\ Len(FieldNodes) = Len(WrittenFields(buffer))
        /\ \A i \in 1..Len(FieldNodes) :
              MarkedOptional(FieldNodes[i]) <=> WrittenFields(buffer)[i].optional

\* C27: after the builder actions of each complete top-level statement have
\* run, ExprStack and PathSegmentStack are both empty: nothing pushed while
\* parsing one statement is visible while building the next.
C27_StacksEmptyBetweenStatements ==
    StatementBuilt => (sb.ExprStack = <<>> /\ sb.PathSegmentStack = <<>>)

----------------------------------------------------------------------------
(* Claims about the tree builder *)

\* The nodes reachable from node n through Children, n included.
RECURSIVE Descendants(_)
Descendants(n) ==
    {n} \cup UNION {Descendants(tb.nodes[n].Children[k]) :
                        k \in 1..Len(tb.nodes[n].Children)}

ReachableFromRoot == IF tb.Root = 0 THEN {} ELSE Descendants(tb.Root)

\* C30: for any sequence of PushNode, AddValue and PopNode calls in which
\* every PopNode matches an earlier PushNode, each PopNode restores Current
\* to the node that was current immediately before the matching PushNode,
\* Stack is empty once all pushes are matched, and every node ever created
\* is reachable from Root through Children.
C30_TreeBuilderKeepsOneTree ==
    /\ [][CallPopNode => tb'.Current = opened[Len(opened)]]_vars
    /\ [](opened = <<>> => tb.Stack = <<>>)
    /\ [](\A n \in 1..Len(tb.nodes) : n \in ReachableFromRoot)

----------------------------------------------------------------------------
(* Claims about the grammar *)

\* The parser has run rule on the buffer.
Parsed(rule) == accepted # <<>> /\ accepted[1].rule = rule

\* The rule matched and nothing of the buffer is left over.
ConsumedWhole == accepted[1].end = Len(input) + 1

\* C25: the grammar accepts an optional trailing comma in every
\* comma-separated list: struct field lists, enum entry lists, dispatch key
\* lists, attribute item lists, attribute parameter lists, attribute array
\* literals and generic argument lists.
C25_TrailingCommaInEveryList ==
    \A kind \in ListKinds, n \in 1..MaxItems :
        (Parsed("Start") /\ input = ModuleWithList(kind, n, TRUE)) => ConsumedWhole

PrimitiveKeywords == {"string", "double", "float", "int", "boolean", "any"}

\* C28: the Type rule parses an identifier as a reference type whenever the
\* identifier is not exactly one of the keywords string, double, float, int,
\* boolean, any; an identifier that merely begins with one of them is
\* consumed whole as a reference, not as the primitive followed by leftover
\* input.
C28_IdentifierIsReferenceUnlessKeyword ==
    (Parsed("Type") /\ input \in TypeWords \ PrimitiveKeywords) =>
        (accepted[1].taken = "ReferenceType" /\ ConsumedWhole)

====
